---------------------------- MODULE Spec2Model ----------------------------
(***************************************************************************)
(* A model of eta.core.serial: the Serializable capability and the two     *)
(* homogeneous collections built on it, Container (a list) and Set (an     *)
(* insertion-ordered mapping from key to element).                         *)
(*                                                                         *)
(* One object `obj` is constructed and then mutated by the methods of its  *)
(* class; it can be serialized into a document `doc`, and the document can *)
(* be decoded through an entry point into `out`.                           *)
(*                                                                         *)
(* Further parts, each with its own variables and specification: element   *)
(* objects by reference (OwnSpec), load_json (LoadSpec), the confidence    *)
(* filter of eta.modules.apply_image_classifier (FilterSpec), and          *)
(* CaptureStdout (CapSpec) and ProgressBar (BarSpec) of eta.core.utils.    *)
(***************************************************************************)
EXTENDS Integers, Sequences, FiniteSets, TLC

(***************************************************************************)
(* Bounds of the model.                                                    *)
(***************************************************************************)
\* the longest element list an object is grown to
MaxLen == 3
\* the number of surrogate keys uuid4() hands out in one behaviour
MaxUuid == 4

(***************************************************************************)
(* Python values.                                                          *)
(***************************************************************************)
\* Python's None as an attribute value (attribute values are naturals)
None == -1
\* the absence of an object, a document or an attribute
Nothing == [cls |-> "<nothing>"]
\* a raised exception, as the result of a call; `elements` is what the object
\* under construction had stored when the exception left its constructor
Raise(exc) == [cls |-> "<raised>", error |-> exc, elements |-> <<>>]
Raised(r) == r.cls = "<raised>"

\* list helpers
RECURSIVE SelectIdx(_, _)
SelectIdx(s, keep) ==
    \* [s[i] for i in 1..Len(s) if i in keep], in order
    IF s = <<>> THEN <<>>
    ELSE LET n == Len(s)
             front == SelectIdx(SubSeq(s, 1, n - 1), keep)
         IN IF n \in keep THEN Append(front, s[n]) ELSE front
Reverse(s) == [i \in 1..Len(s) |-> s[Len(s) + 1 - i]]
Range(s) == {s[i] : i \in 1..Len(s)}

(***************************************************************************)
(* The type registry: the classes of the program under analysis.  Dog,     *)
(* Puppy and Cat are leaf element types; the others are the concrete       *)
(* Container and Set types declared over them.                             *)
(***************************************************************************)
LeafClasses == {"Dog", "Puppy", "Cat"}
ContainerClasses ==
    {"Container", "DogContainer", "PuppyContainer", "KennelContainer",
     "TaggedContainer"}
SetClasses == {"Set", "DogSet", "TaggedSet"}
\* a Serializable subclass with the fields name and x that does not override
\* from_dict
PlainClasses == {"Plain"}
Classes ==
    {"Serializable"} \cup LeafClasses \cup ContainerClasses \cup SetClasses
        \cup PlainClasses

\* the direct base class
Parent(c) ==
    CASE c = "Puppy" -> "Dog"
      [] c = "PuppyContainer" -> "DogContainer"
      [] c \in {"DogContainer", "KennelContainer", "TaggedContainer"} -> "Container"
      [] c \in {"DogSet", "TaggedSet"} -> "Set"
      [] OTHER -> "Serializable"

RECURSIVE IsSubclass(_, _)
\* issubclass(c, base)
IsSubclass(c, base) ==
    IF c = base THEN TRUE
    ELSE IF c = "Serializable" THEN FALSE
    ELSE IsSubclass(Parent(c), base)

\* isinstance(v, base)
IsInstance(v, base) == IsSubclass(v.cls, base)

\* _ELE_CLS: the declared element class (None on the abstract bases)
EleCls(c) ==
    CASE c \in {"DogContainer", "DogSet", "TaggedContainer", "TaggedSet"} -> "Dog"
      [] c = "PuppyContainer" -> "Puppy"
      [] c = "KennelContainer" -> "DogContainer"
      [] OTHER -> "<None>"

\* _ELE_CLS_FIELD: the document field that carries the element class name
EleClsField(c) ==
    IF c \in {"TaggedContainer", "TaggedSet"} THEN "_TAG_CLS" ELSE "_ELEMENT_CLS"

\* _ELE_ATTR: the attribute (and document field) that holds the elements
EleAttr(c) ==
    IF c \in {"TaggedContainer", "TaggedSet"} THEN "dogs" ELSE "elements"

\* _ELE_KEY_ATTR: the element attribute a Set is keyed by
EleKeyAttr(c) == IF c \in {"DogSet", "TaggedSet"} THEN "name" ELSE "<None>"

\* etau.get_class_name / etau.get_class: a class and its name determine each
\* other, so a class is represented by its name
GetClassName(c) == c
GetClass(name) == name

(***************************************************************************)
(* Objects.                                                                *)
(*   leaf element : [cls, name, x]                                         *)
(*   Container    : [cls, elements |-> <<e1, ..., en>>]                    *)
(*   Set          : [cls, elements |-> << <<k1, e1>>, ..., <<kn, en>> >>]  *)
(*                  (an OrderedDict: keys distinct, insertion order kept)  *)
(***************************************************************************)
Leaf(c, n, v) == [cls |-> c, name |-> n, x |-> v]
IsLeaf(v) == v.cls \in LeafClasses
IsContainer(v) == v.cls \in ContainerClasses
IsSet(v) == v.cls \in SetClasses
IsPlain(v) == v.cls \in PlainClasses

\* getattr(e, attr) for the element attributes of the model
GetAttr(e, attr) == IF attr = "name" THEN e.name ELSE e.x

(***************************************************************************)
(* OrderedDict, as a sequence of <<key, value>> pairs.                     *)
(***************************************************************************)
Keys(od) == {od[i][1] : i \in 1..Len(od)}
Values(od) == [i \in 1..Len(od) |-> od[i][2]]
Has(od, k) == k \in Keys(od)
Get(od, k) == od[CHOOSE i \in 1..Len(od) : od[i][1] = k][2]
\* od[k] = v: an existing key keeps its position
Put(od, k, v) ==
    IF Has(od, k)
    THEN [i \in 1..Len(od) |-> IF od[i][1] = k THEN <<k, v>> ELSE od[i]]
    ELSE Append(od, <<k, v>>)
\* od.pop(k), the dictionary that is left
Pop(od, k) == SelectSeq(od, LAMBDA p : p[1] # k)
RECURSIVE Update(_, _)
\* od.update(other)
Update(od, other) ==
    IF other = <<>> THEN od
    ELSE Update(Put(od, other[1][1], other[1][2]), Tail(other))


(***************************************************************************)
(* uuid4(): the n-th surrogate key of a behaviour.  uuid4 draws 122 random *)
(* bits; the model takes its results to be pairwise distinct and distinct  *)
(* from every element name.                                                *)
(***************************************************************************)
Uuid4(n) == "uuid-" \o ToString(n)
IsUuid(k) == \E n \in 1..(2 * MaxUuid + 2) : k = Uuid4(n)

(***************************************************************************)
(* Container: construction and mutation.                                   *)
(***************************************************************************)
\* Container._validate: the exception it raises, "" when the class is valid
ContainerValidate(c) ==
    IF EleCls(c) = "<None>" THEN "ContainerError"
    ELSE IF EleAttr(c) = "<None>" THEN "ContainerError"
    ELSE IF ~IsSubclass(EleCls(c), "Serializable") THEN "ContainerError"
    ELSE ""

\* Container.add
ContainerAdd(o, instance) == [o EXCEPT !.elements = Append(@, instance)]

\* Container.add_container
ContainerAddContainer(o, container) ==
    [o EXCEPT !.elements = @ \o container.elements]

RECURSIVE ContainerAddEach(_, _)
ContainerAddEach(o, elements) ==
    IF elements = <<>> THEN o
    ELSE ContainerAddEach(ContainerAdd(o, Head(elements)), Tail(elements))

\* add_iterable that inserts each element at the front
ContainerAddIterableFront(o, elements, isList) ==
    [o EXCEPT !.elements = Reverse(elements) \o @]

\* Container.add_iterable: a list is extended in one go, any other iterable
\* is added element by element
ContainerAddIterable(o, elements, isList) ==
    IF isList THEN [o EXCEPT !.elements = @ \o elements]
    ELSE ContainerAddEach(o, elements)

\* __init__ that checks each element as it stores it: the exception leaves
\* the elements stored before the first mismatch
ContainerInitEager(c, elements) ==
    IF ContainerValidate(c) # "" THEN Raise(ContainerValidate(c))
    ELSE IF \E i \in 1..Len(elements) : ~IsInstance(elements[i], EleCls(c))
    THEN LET bad == CHOOSE i \in 1..Len(elements) :
                       /\ ~IsInstance(elements[i], EleCls(c))
                       /\ \A j \in 1..(i - 1) : IsInstance(elements[j], EleCls(c))
         IN [Raise("ContainerError") EXCEPT !.elements = SubSeq(elements, 1, bad - 1)]
    ELSE [cls |-> c, elements |-> elements]

\* Container.__init__(elements=...): the new object, or the exception raised
ContainerInit(c, elements) ==
    IF ContainerValidate(c) # "" THEN Raise(ContainerValidate(c))
    ELSE IF \E i \in 1..Len(elements) : ~IsInstance(elements[i], EleCls(c))
    THEN Raise("ContainerError")
    ELSE ContainerAddIterable([cls |-> c, elements |-> <<>>], elements, TRUE)

\* Container.__setitem__ (index is 0-based in the code, 1-based here)
ContainerSetItem(o, index, value) == [o EXCEPT !.elements[index] = value]

(***************************************************************************)
(* Filters: the predicates handed to filter_elements, and match.           *)
(***************************************************************************)
Filters == {"x_is_1", "has_name"}
ApplyFilter(f, e) ==
    IF f = "x_is_1" THEN e.x = 1 ELSE e.name # ""
\* a match function that is all whatever the caller passed
MatchAll(match, filters, e) ==
    \A i \in 1..Len(filters) : ApplyFilter(filters[i], e)

\* match(f(o) for f in filters) with match one of the builtins any, all
Match(match, filters, e) ==
    IF match = "any" THEN \E i \in 1..Len(filters) : ApplyFilter(filters[i], e)
    ELSE \A i \in 1..Len(filters) : ApplyFilter(filters[i], e)

\* Container._filter_elements
ContainerFilter(o, filters, match) ==
    SelectSeq(o.elements, LAMBDA e : Match(match, filters, e))

\* Container.filter_elements
ContainerFilterElements(o, filters, match) ==
    [o EXCEPT !.elements = ContainerFilter(o, filters, match)]

RECURSIVE DeleteEach(_, _)
\* del elements[idx] for each idx of inds, in the order given; an index past
\* the end of the list raises IndexError, which ends the loop
DeleteEach(elements, inds) ==
    IF inds = <<>> THEN elements
    ELSE IF Head(inds) > Len(elements) THEN elements
    ELSE DeleteEach(SelectIdx(elements, (1..Len(elements)) \ {Head(inds)}),
                    Tail(inds))

RECURSIVE DeleteEachError(_, _)
\* the exception that loop raises, "" when it runs to its end
DeleteEachError(elements, inds) ==
    IF inds = <<>> THEN ""
    ELSE IF Head(inds) > Len(elements) THEN "IndexError"
    ELSE DeleteEachError(SelectIdx(elements, (1..Len(elements)) \ {Head(inds)}),
                         Tail(inds))

RECURSIVE SortedDesc(_)
\* sorted(inds, reverse=True) of a list of indices
SortedDesc(inds) ==
    IF inds = <<>> THEN <<>>
    ELSE LET m == CHOOSE i \in 1..Len(inds) :
                      \A j \in 1..Len(inds) : inds[j] <= inds[i]
         IN <<inds[m]>> \o SortedDesc(SelectIdx(inds, (1..Len(inds)) \ {m}))

\* Container.delete_inds: the container as the call leaves it
ContainerDeleteInds(o, inds) ==
    [o EXCEPT !.elements = DeleteEach(@, SortedDesc(inds))]

\* the exception Container.delete_inds raises, "" when it returns
ContainerDeleteIndsError(o, inds) == DeleteEachError(o.elements, SortedDesc(inds))

\* Container.keep_inds
ContainerKeepInds(o, inds) ==
    [o EXCEPT !.elements = SelectIdx(@, Range(inds))]

(***************************************************************************)
(* sorted(items, reverse=reverse, key=field_none_last), as Python computes *)
(* it: a stable sort on the keys, and for reverse=True the stable sort of  *)
(* the reversed list, reversed again.                                      *)
(***************************************************************************)
\* the sort key without the exclusive or with reverse
FieldNoneLastNoReverse(val, reverse) == <<IF val = None THEN 1 ELSE 0, val>>

\* field_none_last: the sort key ((val is None) ^ reverse, val)
FieldNoneLast(val, reverse) == <<IF (val = None) # reverse THEN 1 ELSE 0, val>>

\* k1 < k2 on the key tuples: the first differing component decides
KeyLess(k1, k2) ==
    IF k1[1] # k2[1] THEN k1[1] < k2[1]
    ELSE IF k1[2] # k2[2] THEN k1[2] < k2[2]
    ELSE FALSE

RECURSIVE StableOrder(_, _)
\* the indices 1..n of keys in ascending key order, equal keys in index order
StableOrder(keys, n) ==
    IF n = 0 THEN <<>>
    ELSE LET perm == StableOrder(keys, n - 1)
             p == Cardinality({j \in 1..(n - 1) :
                                  ~KeyLess(keys[n], keys[perm[j]])})
         IN SubSeq(perm, 1, p) \o <<n>> \o SubSeq(perm, p + 1, n - 1)

\* sorted(items, reverse=reverse, key=...) given the key of each item
PySorted(items, keys, reverse) ==
    IF reverse
    THEN LET ritems == Reverse(items)
             perm == StableOrder(Reverse(keys), Len(items))
         IN Reverse([i \in 1..Len(items) |-> ritems[perm[i]]])
    ELSE LET perm == StableOrder(keys, Len(items))
         IN [i \in 1..Len(items) |-> items[perm[i]]]

\* Container.sort_by
ContainerSortBy(o, attr, reverse) ==
    [o EXCEPT !.elements =
        PySorted(@, [i \in 1..Len(@) |->
                        FieldNoneLast(GetAttr(@[i], attr), reverse)], reverse)]

(***************************************************************************)
(* Set: construction and mutation.                                         *)
(***************************************************************************)
\* Set._validate: the exception it raises, "" when the class is valid
SetValidate(c) ==
    IF EleCls(c) = "<None>" THEN "SetError"
    ELSE IF EleAttr(c) = "<None>" THEN "SetError"
    ELSE IF ~IsSubclass(EleCls(c), "Serializable") THEN "SetError"
    ELSE IF EleKeyAttr(c) = "<None>" THEN "SetError"
    ELSE ""

\* Set.get_key
GetKey(c, element) == GetAttr(element, EleKeyAttr(c))
\* the truth value of a key: an empty key is false
Falsy(key) == key = ""

\* add that keeps the element already stored under the key
SetAddKeepFirst(o, element, n) ==
    LET key == IF Falsy(GetKey(o.cls, element)) THEN Uuid4(n + 1)
               ELSE GetKey(o.cls, element)
    IN IF Has(o.elements, key) THEN o
       ELSE [o EXCEPT !.elements = Put(@, key, element)]

\* add without the surrogate key: the key is the attribute value as it is
SetAddNoSurrogate(o, element, n) ==
    [o EXCEPT !.elements = Put(@, GetKey(o.cls, element), element)]

\* Set.add, when n surrogate keys have been handed out before
SetAdd(o, element, n) ==
    LET key == IF Falsy(GetKey(o.cls, element)) THEN Uuid4(n + 1)
               ELSE GetKey(o.cls, element)
    IN [o EXCEPT !.elements = Put(@, key, element)]

\* the number of uuid4() calls Set.add makes for these elements
UuidCalls(c, elements) ==
    Cardinality({i \in 1..Len(elements) : Falsy(GetKey(c, elements[i]))})

\* add_iterable that returns after the first element
SetAddIterableFirstOnly(o, elements, n) ==
    IF elements = <<>> THEN o
    ELSE [o EXCEPT !.elements =
            Put(@, IF Falsy(GetKey(o.cls, Head(elements))) THEN Uuid4(n + 1)
                   ELSE GetKey(o.cls, Head(elements)), Head(elements))]

RECURSIVE SetAddIterable(_, _, _)
\* Set.add_iterable
SetAddIterable(o, elements, n) ==
    IF elements = <<>> THEN o
    ELSE SetAddIterable(SetAdd(o, Head(elements), n), Tail(elements),
                        n + UuidCalls(o.cls, <<Head(elements)>>))

\* Set.add_set
SetAddSet(o, set_) == [o EXCEPT !.elements = Update(@, set_.elements)]

RECURSIVE DeleteKeysEach(_, _)
\* del self.__elements__[key] for each key of keys; a key that is not in the
\* OrderedDict raises KeyError, which ends the loop
DeleteKeysEach(od, keys) ==
    IF keys = <<>> THEN od
    ELSE IF ~Has(od, Head(keys)) THEN od
    ELSE DeleteKeysEach(SelectSeq(od, LAMBDA kv : kv[1] # Head(keys)), Tail(keys))

RECURSIVE DeleteKeysEachError(_, _)
\* the exception that loop raises, "" when it runs to its end
DeleteKeysEachError(od, keys) ==
    IF keys = <<>> THEN ""
    ELSE IF ~Has(od, Head(keys)) THEN "KeyError"
    ELSE DeleteKeysEachError(SelectSeq(od, LAMBDA kv : kv[1] # Head(keys)),
                             Tail(keys))

\* Set.delete_keys: the set as the call leaves it
SetDeleteKeys(o, keys) == [o EXCEPT !.elements = DeleteKeysEach(@, keys)]

\* the exception Set.delete_keys raises, "" when it returns
SetDeleteKeysError(o, keys) == DeleteKeysEachError(o.elements, keys)

\* Set.keep_keys
SetKeepKeys(o, keys) ==
    [o EXCEPT !.elements = SelectSeq(@, LAMBDA kv : kv[1] \in Range(keys))]

\* Set.__init__(elements=...): the new object, or the exception raised
SetInit(c, elements, n) ==
    IF SetValidate(c) # "" THEN Raise(SetValidate(c))
    ELSE IF \E i \in 1..Len(elements) : ~IsInstance(elements[i], EleCls(c))
    THEN Raise("SetError")
    ELSE SetAddIterable([cls |-> c, elements |-> <<>>], elements, n)

\* Set.__setitem__
SetSetItem(o, key, value) == [o EXCEPT !.elements = Put(@, key, value)]

\* Set._filter_elements
SetFilter(o, filters, match) ==
    SelectSeq(o.elements, LAMBDA p : Match(match, filters, p[2]))

\* Set.filter_elements
SetFilterElements(o, filters, match) ==
    [o EXCEPT !.elements = SetFilter(o, filters, match)]

\* Set.sort_by
SetSortBy(o, attr, reverse) ==
    [o EXCEPT !.elements =
        PySorted(@, [i \in 1..Len(@) |->
                        FieldNoneLast(GetAttr(@[i][2], attr), reverse)], reverse)]

\* cls(**{cls._ELE_ATTR: elements}) for a Container or Set class
Construct(c, elements, n) ==
    IF c \in SetClasses THEN SetInit(c, elements, n)
    ELSE ContainerInit(c, elements)

(***************************************************************************)
(* get_matches and count_matches.  A call yields the receiver as the call  *)
(* leaves it (self) and what the call returns or raises (result).          *)
(***************************************************************************)
\* Container.get_matches: self.__class__(**{self._ELE_ATTR: elements})
ContainerGetMatches(o, filters, match) ==
    [self |-> o,
     result |-> ContainerInit(o.cls, ContainerFilter(o, filters, match))]

\* Set.copy: copy.deepcopy(self)
SetCopy(o) == o

\* Set.get_matches: new_set = self.copy(); new_set.filter_elements(...)
SetGetMatches(o, filters, match) ==
    [self |-> o,
     result |-> SetFilterElements(SetCopy(o), filters, match)]

\* the size property of what get_matches returned
Size(r) ==
    IF Raised(r) THEN r ELSE [cls |-> "<int>", value |-> Len(r.elements)]

\* Container.count_matches and Set.count_matches
CountMatches(o, filters, match) ==
    LET call == IF IsSet(o) THEN SetGetMatches(o, filters, match)
                ELSE ContainerGetMatches(o, filters, match)
    IN [self |-> call.self, result |-> Size(call.result)]

(***************************************************************************)
(* Serialization.  A document is an OrderedDict from field name to value.  *)
(***************************************************************************)
\* Serializable.attributes of a leaf element, Container.attributes and
\* Set.attributes
Attributes(v) ==
    IF IsLeaf(v) \/ IsPlain(v) THEN <<"name", "x">> ELSE <<EleAttr(v.cls)>>

\* Serializable._prepare_serial_dict
PrepareSerialDict(v, reflective) ==
    IF reflective THEN << <<"_CLS", GetClassName(v.cls)>> >> ELSE <<>>

RECURSIVE Serialize(_, _)
RECURSIVE SerializableSerialize(_, _)

\* _recurse on a list of Serializable objects
RecurseList(list, reflective) ==
    [i \in 1..Len(list) |-> Serialize(list[i], reflective)]

\* Serializable.serialize: d[a] = _recurse(getattr(self, a), reflective) for
\* each attribute; a scalar is passed through, a list is recursed into
SerializableSerialize(v, reflective) ==
    IF IsLeaf(v) \/ IsPlain(v)
    THEN Update(PrepareSerialDict(v, reflective),
                << <<"name", v.name>>, <<"x", v.x>> >>)
    ELSE Update(PrepareSerialDict(v, reflective),
                << <<EleAttr(v.cls), RecurseList(v.elements, reflective)>> >>)

\* the reflective header of Container.serialize and Set.serialize
ReflectiveHeader(v, reflective) ==
    IF reflective
    THEN << <<"_CLS", GetClassName(v.cls)>>,
            <<EleClsField(v.cls), GetClassName(EleCls(v.cls))>> >>
    ELSE <<>>

\* a serialize that writes the reflective header after the attributes
ContainerSerializeTagLast(v, reflective) ==
    Update(SerializableSerialize(v, FALSE), ReflectiveHeader(v, reflective))

\* Container.serialize
ContainerSerialize(v, reflective) ==
    Update(ReflectiveHeader(v, reflective), SerializableSerialize(v, FALSE))

\* Set.serialize
SetSerialize(v, reflective) ==
    Put(ReflectiveHeader(v, reflective), EleAttr(v.cls),
        RecurseList(Values(v.elements), reflective))

\* v.serialize(reflective=reflective), by the class of v
Serialize(v, reflective) ==
    IF IsContainer(v) THEN ContainerSerialize(v, reflective)
    ELSE IF IsSet(v) THEN SetSerialize(v, reflective)
    ELSE SerializableSerialize(v, reflective)

(***************************************************************************)
(* Decoding.  The result is the decoded object or the exception raised; n  *)
(* is the number of surrogate keys handed out before the call.             *)
(***************************************************************************)
\* from_dict of a leaf element type: the class it is called on, built from
\* the fields of its attribute list
LeafFromDict(c, d) ==
    IF ~Has(d, "name") \/ ~Has(d, "x") THEN Raise("KeyError")
    ELSE Leaf(c, Get(d, "name"), Get(d, "x"))

\* the first exception of a list of results, or the list itself
FirstRaised(results) ==
    IF \E i \in 1..Len(results) : Raised(results[i])
    THEN results[CHOOSE i \in 1..Len(results) :
                    /\ Raised(results[i])
                    /\ \A j \in 1..(i - 1) : ~Raised(results[j])]
    ELSE Nothing

RECURSIVE FromDict(_, _, _)

\* cls(**{cls._ELE_ATTR: [ele_cls.from_dict(dd) for dd in d[cls._ELE_ATTR]]})
DecodeElements(c, ele_cls, d, n) ==
    IF ~Has(d, EleAttr(c)) THEN Raise("KeyError")
    ELSE LET dds == Get(d, EleAttr(c))
             elements == [i \in 1..Len(dds) |-> FromDict(ele_cls, dds[i], n)]
         IN IF FirstRaised(elements) # Nothing THEN FirstRaised(elements)
            ELSE Construct(c, elements, n)

\* a from_dict that looks for the element-class field of the class the
\* document names, not of the class it is called on
ContainerFromDictAnyField(cls, d, n) ==
    IF EleClsField(cls) = "<None>" THEN Raise("ContainerError")
    ELSE IF Has(d, "_CLS")
    THEN LET c == GetClass(Get(d, "_CLS"))
         IN IF ~Has(d, EleClsField(c)) THEN Raise("KeyError")
            ELSE DecodeElements(c, GetClass(Get(d, EleClsField(c))), d, n)
    ELSE IF Raised(Construct(cls, <<>>, n)) THEN Construct(cls, <<>>, n)
    ELSE DecodeElements(cls, EleCls(cls), d, n)

\* Container.from_dict
ContainerFromDict(cls, d, n) ==
    IF EleClsField(cls) = "<None>" THEN Raise("ContainerError")
    ELSE IF Has(d, "_CLS")
    THEN IF ~Has(d, EleClsField(cls)) THEN Raise("ContainerError")
         ELSE LET c == GetClass(Get(d, "_CLS"))
              IN IF ~Has(d, EleClsField(c)) THEN Raise("KeyError")
                 ELSE DecodeElements(c, GetClass(Get(d, EleClsField(c))), d, n)
    ELSE IF Raised(Construct(cls, <<>>, n)) THEN Construct(cls, <<>>, n)
    ELSE DecodeElements(cls, EleCls(cls), d, n)

\* from_dict that builds the class it is called on, not the class the
\* document names
SetFromDictEntryClass(cls, d, n) ==
    IF EleClsField(cls) = "<None>" THEN Raise("SetError")
    ELSE IF Has(d, "_CLS")
    THEN IF ~Has(d, EleClsField(cls)) THEN Raise("SetError")
         ELSE DecodeElements(cls, GetClass(Get(d, EleClsField(cls))), d, n)
    ELSE IF Raised(Construct(cls, <<>>, n)) THEN Construct(cls, <<>>, n)
    ELSE DecodeElements(cls, EleCls(cls), d, n)

\* Set.from_dict
SetFromDict(cls, d, n) ==
    IF EleClsField(cls) = "<None>" THEN Raise("SetError")
    ELSE IF Has(d, "_CLS")
    THEN IF ~Has(d, EleClsField(cls)) THEN Raise("SetError")
         ELSE LET c == GetClass(Get(d, "_CLS"))
              IN IF ~Has(d, EleClsField(c)) THEN Raise("KeyError")
                 ELSE DecodeElements(c, GetClass(Get(d, EleClsField(c))), d, n)
    ELSE IF Raised(Construct(cls, <<>>, n)) THEN Construct(cls, <<>>, n)
    ELSE DecodeElements(cls, EleCls(cls), d, n)

\* a from_dict that builds the object from the fields when there is no tag
SerializableFromDictDefault(cls, d, n) ==
    IF Has(d, "_CLS")
    THEN FromDict(GetClass(Get(d, "_CLS")), Pop(d, "_CLS"), n)
    ELSE LeafFromDict(cls, d)

\* Serializable.from_dict
SerializableFromDict(cls, d, n) ==
    IF Has(d, "_CLS")
    THEN FromDict(GetClass(Get(d, "_CLS")), Pop(d, "_CLS"), n)
    ELSE Raise("NotImplementedError")

\* cls.from_dict(d): the from_dict that class cls defines or inherits
FromDict(cls, d, n) ==
    IF cls \in ContainerClasses THEN ContainerFromDict(cls, d, n)
    ELSE IF cls \in SetClasses THEN SetFromDict(cls, d, n)
    ELSE IF cls \in LeafClasses THEN LeafFromDict(cls, d)
    ELSE SerializableFromDict(cls, d, n)

\* the document after cls.from_dict(d): Serializable.from_dict pops "_CLS"
DocAfterFromDict(cls, d) ==
    IF cls \notin ContainerClasses \cup SetClasses \cup LeafClasses
    THEN Pop(d, "_CLS")
    ELSE d

(***************************************************************************)
(* The inputs of the model.                                                *)
(***************************************************************************)
SeqsUpTo(S, k) == UNION {[1..m -> S] : m \in 0..k}

\* elements offered to a DogContainer or DogSet: Dogs, a Puppy (a strict
\* subtype of Dog), a Cat (no Dog); equal and empty names; equal and None x
Pool ==
    {Leaf("Dog", "a", 1), Leaf("Dog", "a", 2), Leaf("Dog", "b", None),
     Leaf("Dog", "", 1), Leaf("Puppy", "", None), Leaf("Cat", "b", 1)}
\* elements offered to the other leaf collections
TinyPool == {Leaf("Puppy", "a", 1), Leaf("Dog", "", None)}
\* elements offered to a KennelContainer (a Container of DogContainers)
NestPool ==
    {[cls |-> "DogContainer", elements |-> <<>>],
     [cls |-> "PuppyContainer", elements |-> <<>>],
     [cls |-> "DogContainer", elements |-> <<Leaf("Dog", "a", 1)>>],
     Leaf("Cat", "b", 1)}
PoolOf(c) ==
    CASE c \in {"DogContainer", "DogSet"} -> Pool
      [] c = "KennelContainer" -> NestPool
      [] OTHER -> TinyPool
\* the element lists another container, set or iterable brings along
ListsOf(c) == SeqsUpTo(TinyPool, 2)
\* the keys and values used in a key assignment on a Set
AssignKeys == {"z"}
\* the key lists handed to delete_keys and keep_keys: keys that may be
\* missing from the set, a key possibly twice
KeyLists == SeqsUpTo({"a", "b"}, 2)
\* the filter lists and the match functions handed to filter_elements
FilterLists == {<<"has_name">>, <<"x_is_1", "has_name">>}
Matches == {"any", "all"}
\* the index lists handed to delete_inds and keep_inds: valid indices in any
\* order, an index possibly twice
IndsOf(o) == SeqsUpTo(1..Len(o.elements), 2)
\* the entry points the document of o is decoded through: the bases, the
\* class of o itself and two concrete classes
EntryPointsFor(o) ==
    {"Serializable", "Container", "Set", "DogContainer", "DogSet", o.cls}

(***************************************************************************)
(* The state.                                                              *)
(***************************************************************************)
VARIABLES
    pc,     \* "new", "failed" (the constructor raised), "live", "serialized",
            \* "decoded", "matched" (get_matches or count_matches returned);
            \* "plain", "plain-serialized", "plain-decoded" for a Plain
    obj,    \* the object under test, Nothing while there is none
    doc,    \* the document obj was serialized into
    out,    \* what decoding doc, get_matches or count_matches returned: an
            \* object, a number or the exception raised
    uuids,  \* the number of surrogate keys uuid4() has handed out
    last    \* the last call, its arguments and, for add and sort_by, the
            \* element store it found

VARIABLES
    heap,     \* the element objects in memory: heap[a] is the record of the
              \* fields of the object at address a
    orig,     \* a Container or Set as a sequence of addresses, with the field
              \* values its elements had when the other was obtained from it
    derived   \* the Container or Set obtained from orig, Nothing before

VARIABLES
    fs,       \* the files on disk: fs[path] is the text of the file at path,
              \* NoFile where there is none
    loaded    \* the last load_json call: its argument and what it returned
              \* or raised, Nothing before

VARIABLES
    clf       \* apply_image_classifier: the confidence threshold configured and
              \* the last _classify_image call (predictions and what was kept)

VARIABLES
    bar,      \* the ProgressBar, Nothing before it is constructed
    now,      \* the clock: timeit.default_timer(), in units of 1 / max_fps
    barCall   \* the last call on the bar: its name, arguments, the bar it
              \* found and the exception it raised ("" when it returned)

VARIABLES
    sysStdout,  \* sys.stdout: the stream installed at the beginning or the
                \* capture buffer of an instance
    logStream,  \* the stream of the root logger's StreamHandler
    caps,       \* the CaptureStdout instances: caps[c] holds the fields of c
                \* ("P" is the instance a ProgressBar creates in start())
    capCall     \* the last call on an instance and the state it found

collectionVars == <<pc, obj, doc, out, uuids, last>>
ownVars == <<heap, orig, derived>>
loadVars == <<fs, loaded>>
barVars == <<bar, now, barCall>>
capVars == <<sysStdout, logStream, caps, capCall>>
\* the state of eta.modules.apply_image_classifier and eta.core.utils
utilVars == <<clf, barVars, capVars>>
\* what the operations on one Container or Set leave alone
OutsideCollections == <<ownVars, loadVars, utilVars>>
vars == <<collectionVars, ownVars, loadVars, utilVars>>

\* no Container or Set has been constructed
NoCollection ==
    /\ pc = "new"
    /\ obj = Nothing
    /\ doc = <<>>
    /\ out = Nothing
    /\ uuids = 0
    /\ last = [op |-> "none"]

\* no element object is in memory
NoHeap ==
    /\ heap = <<>>
    /\ orig = Nothing
    /\ derived = Nothing

\* no file is on disk and load_json has not been called
NoFiles ==
    /\ fs = [path \in {<<"1">>, <<"a">>, <<"a", "=", "1">>} |-> <<"<no file>">>]
    /\ loaded = Nothing

\* no classifier is configured, no ProgressBar and no CaptureStdout exists
NoUtils ==
    /\ clf = Nothing
    /\ bar = Nothing
    /\ now = 0
    /\ barCall = [op |-> "none"]
    /\ sysStdout = <<"orig", 0>>
    /\ logStream = <<"orig", 0>>
    /\ caps = [c \in {"A", "B", "P"} |->
                  [orig_stdout |-> <<"None", 0>>, cache_stdout |-> <<"None", 0>>,
                   handler_inds |-> <<"None">>, buffers |-> 0]]
    /\ capCall = [op |-> "none"]

Init == NoCollection /\ NoHeap /\ NoFiles /\ NoUtils

AllLeaves(o) ==
    IF IsSet(o) THEN \A i \in 1..Len(o.elements) : IsLeaf(o.elements[i][2])
    ELSE \A i \in 1..Len(o.elements) : IsLeaf(o.elements[i])

\* obj = cls(elements=elements)
New ==
    /\ pc = "new"
    /\ \E c \in ContainerClasses \cup SetClasses :
       \E elements \in SeqsUpTo(PoolOf(c), IF EleCls(c) = "<None>" THEN 1 ELSE MaxLen) :
          LET r == Construct(c, elements, uuids)
          IN /\ pc' = IF Raised(r) THEN "failed" ELSE "live"
             /\ obj' = IF Raised(r) THEN Nothing ELSE r
             /\ uuids' = IF Raised(r) \/ c \notin SetClasses THEN uuids
                         ELSE uuids + UuidCalls(c, elements)
             /\ last' = [op |-> "init", cls |-> c, arg |-> elements, res |-> r]
    /\ UNCHANGED <<doc, out>>
    /\ UNCHANGED OutsideCollections

\* cls(elements=it) with `it` a one-shot iterator over elements: the
\* isinstance loop of __init__ walks the iterator to its end (or to the
\* element it rejects), and add_iterable then walks what is left of it
InitFromIterator(c, elements, n) ==
    LET checked == Construct(c, elements, n)
    IN IF Raised(checked) THEN checked
       ELSE Construct(c, <<>>, n)

\* obj = cls(elements=iter(elements))
NewFromIterator ==
    /\ pc = "new"
    /\ \E c \in {"DogContainer", "DogSet", "TaggedSet"} :
       \E elements \in SeqsUpTo(PoolOf(c), 2) :
          LET r == InitFromIterator(c, elements, uuids)
          IN /\ pc' = IF Raised(r) THEN "failed" ELSE "live"
             /\ obj' = IF Raised(r) THEN Nothing ELSE r
             /\ last' = [op |-> "init_iterator", cls |-> c, arg |-> elements,
                         res |-> r]
    /\ UNCHANGED <<doc, out, uuids>>
    /\ UNCHANGED OutsideCollections

Live(kind) == pc = "live" /\ obj.cls \in kind

\* obj.add(instance) on a Container
CAdd ==
    /\ Live(ContainerClasses)
    /\ Len(obj.elements) < MaxLen
    /\ \E e \in PoolOf(obj.cls) :
          /\ obj' = ContainerAdd(obj, e)
          /\ last' = [op |-> "add", arg |-> e]
    /\ UNCHANGED <<pc, doc, out, uuids>>
    /\ UNCHANGED OutsideCollections

\* obj.add_container(container)
CAddContainer ==
    /\ Live(ContainerClasses)
    /\ \E elements \in ListsOf(obj.cls) :
          /\ Len(obj.elements) + Len(elements) <= MaxLen
          /\ obj' = ContainerAddContainer(obj, [cls |-> obj.cls, elements |-> elements])
          /\ last' = [op |-> "add_container", arg |-> elements]
    /\ UNCHANGED <<pc, doc, out, uuids>>
    /\ UNCHANGED OutsideCollections

\* obj.add_iterable(elements), elements a list or another iterable
CAddIterable ==
    /\ Live(ContainerClasses)
    /\ \E elements \in ListsOf(obj.cls), isList \in BOOLEAN :
          /\ Len(obj.elements) + Len(elements) <= MaxLen
          /\ obj' = ContainerAddIterable(obj, elements, isList)
          /\ last' = [op |-> "add_iterable", arg |-> elements]
    /\ UNCHANGED <<pc, doc, out, uuids>>
    /\ UNCHANGED OutsideCollections

\* obj[index] = value on a Container
CSetItem ==
    /\ Live(ContainerClasses)
    /\ \E index \in 1..Len(obj.elements), value \in PoolOf(obj.cls) :
          /\ obj' = ContainerSetItem(obj, index, value)
          /\ last' = [op |-> "setitem", key |-> index, arg |-> value]
    /\ UNCHANGED <<pc, doc, out, uuids>>
    /\ UNCHANGED OutsideCollections

\* obj.filter_elements(filters, match=match) on a Container
CFilterElements ==
    /\ Live(ContainerClasses)
    /\ AllLeaves(obj)
    /\ \E filters \in FilterLists, match \in Matches :
          /\ obj' = ContainerFilterElements(obj, filters, match)
          /\ last' = [op |-> "filter_elements", filters |-> filters, match |-> match,
                      before |-> obj.elements]
    /\ UNCHANGED <<pc, doc, out, uuids>>
    /\ UNCHANGED OutsideCollections

\* obj.delete_inds(inds)
CDeleteInds ==
    /\ Live(ContainerClasses)
    /\ \E inds \in IndsOf(obj) :
          /\ obj' = ContainerDeleteInds(obj, inds)
          /\ last' = [op |-> "delete_inds", inds |-> inds,
                      before |-> obj.elements,
                      error |-> ContainerDeleteIndsError(obj, inds)]
    /\ UNCHANGED <<pc, doc, out, uuids>>
    /\ UNCHANGED OutsideCollections

\* obj.keep_inds(inds)
CKeepInds ==
    /\ Live(ContainerClasses)
    /\ \E inds \in IndsOf(obj) :
          /\ obj' = ContainerKeepInds(obj, inds)
          /\ last' = [op |-> "keep_inds", inds |-> inds,
                      before |-> obj.elements]
    /\ UNCHANGED <<pc, doc, out, uuids>>
    /\ UNCHANGED OutsideCollections

\* obj.sort_by("x", reverse=reverse) on a Container
CSortBy ==
    /\ Live(ContainerClasses)
    /\ AllLeaves(obj)
    /\ \E reverse \in BOOLEAN :
          /\ obj' = ContainerSortBy(obj, "x", reverse)
          /\ last' = [op |-> "sort_by", reverse |-> reverse,
                      before |-> obj.elements]
    /\ UNCHANGED <<pc, doc, out, uuids>>
    /\ UNCHANGED OutsideCollections

\* obj.add(element) on a Set
SAdd ==
    /\ Live(SetClasses)
    /\ \E e \in PoolOf(obj.cls) :
          /\ uuids + UuidCalls(obj.cls, <<e>>) <= MaxUuid
          /\ Len(SetAdd(obj, e, uuids).elements) <= MaxLen
          /\ obj' = SetAdd(obj, e, uuids)
          /\ uuids' = uuids + UuidCalls(obj.cls, <<e>>)
          /\ last' = [op |-> "add", arg |-> e, before |-> obj.elements]
    /\ UNCHANGED <<pc, doc, out>>
    /\ UNCHANGED OutsideCollections

\* obj.add_iterable(elements) on a Set
SAddIterable ==
    /\ Live(SetClasses)
    /\ \E elements \in ListsOf(obj.cls) :
          /\ Len(obj.elements) + Len(elements) <= MaxLen
          /\ uuids + UuidCalls(obj.cls, elements) <= MaxUuid
          /\ obj' = SetAddIterable(obj, elements, uuids)
          /\ uuids' = uuids + UuidCalls(obj.cls, elements)
          /\ last' = [op |-> "add_iterable", arg |-> elements,
                      before |-> obj.elements]
    /\ UNCHANGED <<pc, doc, out>>
    /\ UNCHANGED OutsideCollections

\* obj.add_set(set_), set_ another Set of the same class built from a list
SAddSet ==
    /\ Live(SetClasses)
    /\ \E elements \in ListsOf(obj.cls) :
          /\ Len(obj.elements) + Len(elements) <= MaxLen
          /\ uuids + UuidCalls(obj.cls, elements) <= MaxUuid
          /\ ~Raised(SetInit(obj.cls, elements, uuids))
          /\ obj' = SetAddSet(obj, SetInit(obj.cls, elements, uuids))
          /\ uuids' = uuids + UuidCalls(obj.cls, elements)
          /\ last' = [op |-> "add_set", arg |-> elements]
    /\ UNCHANGED <<pc, doc, out>>
    /\ UNCHANGED OutsideCollections

\* obj[key] = value on a Set
SSetItem ==
    /\ Live(SetClasses)
    /\ \E key \in AssignKeys, value \in TinyPool :
          /\ Len(Put(obj.elements, key, value)) <= MaxLen
          /\ obj' = SetSetItem(obj, key, value)
          /\ last' = [op |-> "setitem", key |-> key, arg |-> value]
    /\ UNCHANGED <<pc, doc, out, uuids>>
    /\ UNCHANGED OutsideCollections

\* obj.delete_keys(keys)
SDeleteKeys ==
    /\ Live(SetClasses)
    /\ \E keys \in KeyLists :
          /\ obj' = SetDeleteKeys(obj, keys)
          /\ last' = [op |-> "delete_keys", keys |-> keys,
                      before |-> obj.elements,
                      error |-> SetDeleteKeysError(obj, keys)]
    /\ UNCHANGED <<pc, doc, out, uuids>>
    /\ UNCHANGED OutsideCollections

\* obj.keep_keys(keys)
SKeepKeys ==
    /\ Live(SetClasses)
    /\ \E keys \in KeyLists :
          /\ obj' = SetKeepKeys(obj, keys)
          /\ last' = [op |-> "keep_keys", keys |-> keys,
                      before |-> obj.elements, error |-> ""]
    /\ UNCHANGED <<pc, doc, out, uuids>>
    /\ UNCHANGED OutsideCollections

\* obj.filter_elements(filters, match=match) on a Set
SFilterElements ==
    /\ Live(SetClasses)
    /\ \E filters \in FilterLists, match \in Matches :
          /\ obj' = SetFilterElements(obj, filters, match)
          /\ last' = [op |-> "filter_elements", filters |-> filters, match |-> match,
                      before |-> obj.elements]
    /\ UNCHANGED <<pc, doc, out, uuids>>
    /\ UNCHANGED OutsideCollections

\* obj.sort_by("x", reverse=reverse) on a Set
SSortBy ==
    /\ Live(SetClasses)
    /\ \E reverse \in BOOLEAN :
          /\ obj' = SetSortBy(obj, "x", reverse)
          /\ last' = [op |-> "sort_by", reverse |-> reverse,
                      before |-> obj.elements]
    /\ UNCHANGED <<pc, doc, out, uuids>>
    /\ UNCHANGED OutsideCollections

\* doc = obj.serialize(reflective=reflective)
SerializeObj ==
    /\ pc = "live"
    /\ \E reflective \in BOOLEAN :
          /\ doc' = Serialize(obj, reflective)
          /\ last' = [op |-> "serialize", reflective |-> reflective]
    /\ pc' = "serialized"
    /\ UNCHANGED <<obj, out, uuids>>
    /\ UNCHANGED OutsideCollections

\* out = entry.from_dict(doc)
FromDictDoc ==
    /\ pc = "serialized"
    /\ \E entry \in EntryPointsFor(obj) :
          LET r == FromDict(entry, doc, uuids)
          IN /\ out' = r
             /\ doc' = DocAfterFromDict(entry, doc)
             /\ uuids' = IF IsSet(r) THEN uuids + UuidCalls(r.cls, Values(r.elements))
                         ELSE uuids
             /\ last' = [op |-> "from_dict", entry |-> entry,
                         reflective |-> last.reflective, before |-> doc]
    /\ pc' = "decoded"
    /\ UNCHANGED obj
    /\ UNCHANGED OutsideCollections

\* obj = Plain(name, x), a Serializable that is no Container and no Set
NewPlain ==
    /\ pc = "new"
    /\ \E n \in {"a", ""}, v \in {1, None} :
          obj' = [cls |-> "Plain", name |-> n, x |-> v]
    /\ pc' = "plain"
    /\ last' = [op |-> "init_plain"]
    /\ UNCHANGED <<doc, out, uuids>>
    /\ UNCHANGED OutsideCollections

\* doc = obj.serialize(reflective=reflective) on a Plain
SerializePlain ==
    /\ pc = "plain"
    /\ \E reflective \in BOOLEAN :
          /\ doc' = Serialize(obj, reflective)
          /\ last' = [op |-> "serialize", reflective |-> reflective]
    /\ pc' = "plain-serialized"
    /\ UNCHANGED <<obj, out, uuids>>
    /\ UNCHANGED OutsideCollections

\* out = entry.from_dict(doc) with entry Serializable or the class of obj,
\* which inherits from_dict from Serializable
FromDictPlain ==
    /\ pc = "plain-serialized"
    /\ \E entry \in {"Serializable", obj.cls} :
          /\ out' = FromDict(entry, doc, uuids)
          /\ doc' = DocAfterFromDict(entry, doc)
          /\ last' = [op |-> "from_dict", entry |-> entry,
                      reflective |-> last.reflective, before |-> doc]
    /\ pc' = "plain-decoded"
    /\ UNCHANGED <<obj, uuids>>
    /\ UNCHANGED OutsideCollections

\* out = obj.get_matches(filters, match=match) on a Container
CGetMatches ==
    /\ Live(ContainerClasses)
    /\ AllLeaves(obj)
    /\ \E filters \in FilterLists, match \in Matches :
          LET call == ContainerGetMatches(obj, filters, match)
          IN /\ obj' = call.self
             /\ out' = call.result
             /\ last' = [op |-> "get_matches", filters |-> filters,
                         match |-> match, before |-> obj.elements]
    /\ pc' = "matched"
    /\ UNCHANGED <<doc, uuids>>
    /\ UNCHANGED OutsideCollections

\* out = obj.get_matches(filters, match=match) on a Set
SGetMatches ==
    /\ Live(SetClasses)
    /\ \E filters \in FilterLists, match \in Matches :
          LET call == SetGetMatches(obj, filters, match)
          IN /\ obj' = call.self
             /\ out' = call.result
             /\ last' = [op |-> "get_matches", filters |-> filters,
                         match |-> match, before |-> obj.elements]
    /\ pc' = "matched"
    /\ UNCHANGED <<doc, uuids>>
    /\ UNCHANGED OutsideCollections

\* out = obj.count_matches(filters, match=match) on a Container or Set
CountMatchesObj ==
    /\ Live(ContainerClasses \cup SetClasses)
    /\ AllLeaves(obj)
    /\ \E filters \in FilterLists, match \in Matches :
          LET call == CountMatches(obj, filters, match)
          IN /\ obj' = call.self
             /\ out' = call.result
             /\ last' = [op |-> "count_matches", filters |-> filters,
                         match |-> match, before |-> obj.elements]
    /\ pc' = "matched"
    /\ UNCHANGED <<doc, uuids>>
    /\ UNCHANGED OutsideCollections

Next ==
    \/ New \/ NewFromIterator
    \/ CAdd \/ CAddContainer \/ CAddIterable \/ CSetItem
    \/ CFilterElements \/ CDeleteInds \/ CKeepInds \/ CSortBy
    \/ SAdd \/ SAddIterable \/ SAddSet \/ SSetItem
    \/ SDeleteKeys \/ SKeepKeys
    \/ SFilterElements \/ SSortBy
    \/ CGetMatches \/ SGetMatches \/ CountMatchesObj
    \/ SerializeObj \/ FromDictDoc
    \/ NewPlain \/ SerializePlain \/ FromDictPlain

Spec == Init /\ [][Next]_vars

(***************************************************************************)
(* Element objects by reference.  To see which element objects two         *)
(* collections share, a Container is a list of addresses and a Set an      *)
(* OrderedDict from key to address; heap[a] holds the fields of the        *)
(* object at address a.  A call yields the heap and the object returned.   *)
(***************************************************************************)
MaxObjs == 4
\* the elements the collections of this part are built from
OwnPool == {Leaf("Dog", "a", 1), Leaf("Dog", "b", 2)}
\* the values assigned to the field x of an element
FieldValues == {1, 2}

\* the addresses a Container or Set holds, in order
Refs(o) == IF IsSet(o) THEN Values(o.elements) ELSE o.elements

\* copy.deepcopy(self): every element object is copied to a new address, an
\* object held twice is copied once
DeepCopy(h, o) ==
    LET refs == Refs(o)
        first(a) == CHOOSE i \in 1..Len(refs) :
                        refs[i] = a /\ \A j \in 1..(i - 1) : refs[j] # a
        firsts == SelectIdx(refs, {i \in 1..Len(refs) : first(refs[i]) = i})
        new(a) == Len(h) + (CHOOSE i \in 1..Len(firsts) : firsts[i] = a)
    IN [heap |-> h \o [i \in 1..Len(firsts) |-> h[firsts[i]]],
        result |-> [o EXCEPT !.elements =
                      [i \in 1..Len(@) |->
                          IF IsSet(o) THEN <<@[i][1], new(@[i][2])>>
                          ELSE new(@[i])]]]

\* Container.copy and Set.copy
CopyByRef(h, o) == DeepCopy(h, o)

\* Container.get_matches: the elements that match, handed to the constructor,
\* which extends its list with them
ContainerGetMatchesByRef(h, o, filters, match) ==
    [heap |-> h,
     result |-> [cls |-> o.cls,
                 elements |-> SelectSeq(o.elements,
                                 LAMBDA a : Match(match, filters, h[a]))]]

\* Set.get_matches: a deep copy, filtered in place
SetGetMatchesByRef(h, o, filters, match) ==
    LET c == CopyByRef(h, o)
    IN [c EXCEPT !.result.elements =
           SelectSeq(@, LAMBDA kv : Match(match, filters, c.heap[kv[2]]))]

\* Container.extract_inds: a deep copy on which keep_inds is called
ContainerExtractIndsByRef(h, o, inds) ==
    LET c == CopyByRef(h, o)
    IN [c EXCEPT !.result.elements = SelectIdx(@, Range(inds))]

\* Set.extract_keys: a deep copy on which keep_keys is called
SetExtractKeysByRef(h, o, keys) ==
    LET c == CopyByRef(h, o)
    IN [c EXCEPT !.result.elements =
           SelectSeq(@, LAMBDA kv : kv[1] \in Range(keys))]

\* orig = cls(elements=[...]) from new element objects
OwnNew ==
    /\ orig = Nothing
    /\ \E c \in {"DogContainer", "DogSet"}, elements \in SeqsUpTo(OwnPool, 2) :
          /\ heap' = elements
          /\ orig' = [cls |-> c,
                      elements |->
                          IF c \in SetClasses
                          THEN Update(<<>>, [i \in 1..Len(elements) |->
                                               <<elements[i].name, i>>])
                          ELSE [i \in 1..Len(elements) |-> i]]
    /\ UNCHANGED <<derived, collectionVars, loadVars, utilVars>>

\* an element of orig gets a new value of x before orig is handed on
OwnSetFieldOrig ==
    /\ orig # Nothing
    /\ derived = Nothing
    /\ \E i \in 1..Len(orig.elements), v \in FieldValues :
          heap' = [heap EXCEPT ![Refs(orig)[i]].x = v]
    /\ UNCHANGED <<orig, derived, collectionVars, loadVars, utilVars>>

\* derived = orig.<how>(...): the object the call returned, with the field
\* values the elements of orig had at the call
Derive(call, how) ==
    /\ orig # Nothing
    /\ derived = Nothing
    /\ Len(call.heap) <= MaxObjs
    /\ heap' = call.heap
    /\ derived' = [cls |-> call.result.cls,
                   elements |-> call.result.elements,
                   how |-> how,
                   was |-> [i \in 1..Len(orig.elements) |-> heap[Refs(orig)[i]]]]
    /\ UNCHANGED <<orig, collectionVars, loadVars, utilVars>>

\* derived = orig.copy()
OwnCopy ==
    /\ orig # Nothing
    /\ Derive(CopyByRef(heap, orig), "copy")

\* derived = orig.get_matches(filters, match=match)
OwnGetMatches ==
    /\ orig # Nothing
    /\ \E filters \in FilterLists, match \in Matches :
          Derive(IF IsSet(orig)
                 THEN SetGetMatchesByRef(heap, orig, filters, match)
                 ELSE ContainerGetMatchesByRef(heap, orig, filters, match),
                 "get_matches")

\* derived = orig.extract_inds(inds) on a Container
OwnExtractInds ==
    /\ orig # Nothing
    /\ IsContainer(orig)
    /\ \E inds \in SeqsUpTo(1..Len(orig.elements), 2) :
          Derive(ContainerExtractIndsByRef(heap, orig, inds), "extract_inds")

\* derived = orig.extract_keys(keys) on a Set
OwnExtractKeys ==
    /\ orig # Nothing
    /\ IsSet(orig)
    /\ \E keys \in SeqsUpTo({"a", "b"}, 2) :
          Derive(SetExtractKeysByRef(heap, orig, keys), "extract_keys")

\* an element reached through derived gets a new value of x
OwnSetField ==
    /\ derived # Nothing
    /\ \E i \in 1..Len(derived.elements), v \in FieldValues :
          heap' = [heap EXCEPT ![Refs(derived)[i]].x = v]
    /\ UNCHANGED <<orig, derived, collectionVars, loadVars, utilVars>>

\* derived.add(element) with a new element object
OwnAdd ==
    /\ derived # Nothing
    /\ Len(heap) < MaxObjs
    /\ \E e \in OwnPool :
          /\ heap' = Append(heap, e)
          /\ derived' = [derived EXCEPT !.elements =
                            IF IsSet(derived) THEN Put(@, e.name, Len(heap) + 1)
                            ELSE Append(@, Len(heap) + 1)]
    /\ UNCHANGED <<orig, collectionVars, loadVars, utilVars>>

\* derived.delete_inds([i]) on a Container, derived.delete_keys([key]) on a Set
OwnDelete ==
    /\ derived # Nothing
    /\ \E i \in 1..Len(derived.elements) :
          derived' = [derived EXCEPT !.elements =
                         SelectIdx(@, (1..Len(@)) \ {i})]
    /\ UNCHANGED <<heap, orig, collectionVars, loadVars, utilVars>>

OwnInit == NoCollection /\ NoHeap /\ NoFiles /\ NoUtils

OwnNext ==
    \/ OwnNew \/ OwnSetFieldOrig
    \/ OwnCopy \/ OwnGetMatches \/ OwnExtractInds \/ OwnExtractKeys
    \/ OwnSetField \/ OwnAdd \/ OwnDelete

OwnSpec == OwnInit /\ [][OwnNext]_vars

(***************************************************************************)
(* load_json.  A text is a sequence of characters.  The JSON documents of  *)
(* the model are numbers of the digits 1 and 2, strings, and lists of      *)
(* documents; a parsed number is <<"num", digits>>, a parsed string        *)
(* <<"str", characters>>, a parsed list <<"list", values>>.                *)
(***************************************************************************)
MaxPairs == 2
Quote == "\""
Digits == {"1", "2"}
NoParse == [ok |-> FALSE, val |-> <<>>, rest |-> <<>>]

\* the length of the longest prefix of s made of digits
DigitPrefix(s) ==
    CHOOSE n \in 0..Len(s) :
        /\ \A i \in 1..n : s[i] \in Digits
        /\ n < Len(s) => s[n + 1] \notin Digits

RECURSIVE ParseValue(_)
RECURSIVE ParseItems(_, _)
\* the JSON decoder on the front of s: the value and the text left over
ParseValue(s) ==
    IF s = <<>> THEN NoParse
    ELSE IF Head(s) \in Digits
    THEN [ok |-> TRUE, val |-> <<"num", SubSeq(s, 1, DigitPrefix(s))>>,
          rest |-> SubSeq(s, DigitPrefix(s) + 1, Len(s))]
    ELSE IF Head(s) = Quote
    THEN IF \E j \in 2..Len(s) : s[j] = Quote
         THEN LET j == CHOOSE j \in 2..Len(s) :
                          s[j] = Quote /\ \A k \in 2..(j - 1) : s[k] # Quote
              IN [ok |-> TRUE, val |-> <<"str", SubSeq(s, 2, j - 1)>>,
                  rest |-> SubSeq(s, j + 1, Len(s))]
         ELSE NoParse
    ELSE IF Head(s) = "["
    THEN IF Len(s) >= 2 /\ s[2] = "]"
         THEN [ok |-> TRUE, val |-> <<"list", <<>>>>, rest |-> SubSeq(s, 3, Len(s))]
         ELSE ParseItems(Tail(s), <<>>)
    ELSE NoParse

\* the items of a list after "[", acc the values decoded so far
ParseItems(s, acc) ==
    LET r == ParseValue(s)
    IN IF ~r.ok \/ r.rest = <<>> THEN NoParse
       ELSE IF Head(r.rest) = ","
       THEN ParseItems(Tail(r.rest), Append(acc, r.val))
       ELSE IF Head(r.rest) = "]"
       THEN [ok |-> TRUE, val |-> <<"list", Append(acc, r.val)>>,
             rest |-> Tail(r.rest)]
       ELSE NoParse

\* what a call returns: the value, or the exception raised
Returns(value) == [error |-> "", value |-> value]
Raises(exc) == [error |-> exc, value |-> <<>>]

\* _load_json: json.loads(str_or_bytes)
JsonLoads(s) ==
    LET r == ParseValue(s)
    IN IF r.ok /\ r.rest = <<>> THEN Returns(r.val) ELSE Raises("ValueError")

RECURSIVE Split(_, _)
\* str.split(sep)
Split(s, sep) ==
    IF \A i \in 1..Len(s) : s[i] # sep THEN <<s>>
    ELSE LET i == CHOOSE i \in 1..Len(s) :
                      s[i] = sep /\ \A k \in 1..(i - 1) : s[k] # sep
         IN <<SubSeq(s, 1, i - 1)>> \o Split(SubSeq(s, i + 1, Len(s)), sep)

\* the paths of the model, and the text of a path that is not a file
NoFile == <<"<no file>">>
Paths == {<<"1">>, <<"a">>, <<"a", "=", "1">>}
\* os.path.isfile(path)
IsFile(files, path) == path \in DOMAIN files /\ files[path] # NoFile

\* read_json(path): json.load of the file
ReadJson(files, path) ==
    IF JsonLoads(files[path]).error = "" THEN JsonLoads(files[path])
    ELSE Raises("ValueError")

RECURSIVE LoadChunks(_, _)
\* the loop of load_json over the chunks of path_or_str.split(","), d the
\* dictionary built so far
LoadChunks(chunks, d) ==
    IF chunks = <<>> THEN Returns(d)
    ELSE LET parts == Split(Head(chunks), "=")
         IN IF Len(parts) # 2 THEN Raises("ValueError")
            ELSE IF JsonLoads(parts[2]).error # "" THEN Raises("ValueError")
            ELSE LoadChunks(Tail(chunks),
                            Put(d, parts[1], JsonLoads(parts[2]).value))

\* load_json(path_or_str)
LoadJson(files, path_or_str) ==
    IF JsonLoads(path_or_str).error = "" THEN JsonLoads(path_or_str)
    ELSE IF IsFile(files, path_or_str) THEN ReadJson(files, path_or_str)
    ELSE LoadChunks(Split(path_or_str, ","), <<>>)

\* the documents, keys and texts load_json is called with
Docs ==
    {<<"1">>, <<"1", "2">>, <<"[", "1", ",", "2", "]">>,
     <<Quote, "a", Quote>>, <<Quote, "=", Quote>>}
ShortKeys == {<<"a">>, <<"b">>}
RECURSIVE JoinPairs(_)
\* the text "key1=doc1,key2=doc2,..." of a list of (key, doc) pairs
JoinPairs(pairs) ==
    IF Len(pairs) = 1 THEN pairs[1][1] \o <<"=">> \o pairs[1][2]
    ELSE pairs[1][1] \o <<"=">> \o pairs[1][2] \o <<",">> \o JoinPairs(Tail(pairs))
\* an argument of load_json: its text and, for a text written as a list of
\* key=doc, the pairs it was written from
LoadArgs ==
    {[text |-> JoinPairs(pairs), pairs |-> pairs] :
        pairs \in SeqsUpTo(ShortKeys \X Docs, MaxPairs) \ {<<>>}}
    \cup {[text |-> t, pairs |-> <<>>] :
            t \in Docs \cup Paths \cup {<<"a", "=">>, <<"[", "1">>}}
\* the texts of the files: two documents and a text that is no document
FileTexts == {<<"2">>, <<"[", "2", "]">>, <<"a">>}

\* a file is written at path
PutFile ==
    /\ \E path \in Paths, text \in FileTexts : fs' = [fs EXCEPT ![path] = text]
    /\ loaded' = Nothing
    /\ UNCHANGED <<collectionVars, ownVars, utilVars>>

\* load_json(path_or_str)
LoadJsonCall ==
    /\ \E arg \in LoadArgs :
          loaded' = [arg |-> arg, res |-> LoadJson(fs, arg.text)]
    /\ UNCHANGED <<fs, collectionVars, ownVars, utilVars>>

LoadInit == NoCollection /\ NoHeap /\ NoFiles /\ NoUtils

LoadNext == PutFile \/ LoadJsonCall

LoadSpec == LoadInit /\ [][LoadNext]_vars

(***************************************************************************)
(* Notions the properties are stated with.                                 *)
(***************************************************************************)
\* the elements of a Container or Set, in order
Elements(o) == IF IsSet(o) THEN Values(o.elements) ELSE o.elements

\* every element is an instance of the declared element class
Homogeneous(o) ==
    \A i \in 1..Len(Elements(o)) : IsInstance(Elements(o)[i], EleCls(o.cls))

\* no two elements of a Set share a non-empty value of the key attribute
DistinctNames(o) ==
    IsSet(o) =>
        \A i, j \in 1..Len(o.elements) :
            (i # j /\ ~Falsy(GetKey(o.cls, o.elements[i][2])))
                => GetKey(o.cls, o.elements[i][2]) # GetKey(o.cls, o.elements[j][2])

\* the decoding of element e of o through the declared element class
DecodedElement(o, e, reflective) ==
    FromDict(EleCls(o.cls), Serialize(e, reflective), 0)

\* a document has been decoded through entry
DecodedThrough(entry) == pc = "decoded" /\ last.entry = entry

(***************************************************************************)
(* C1.  Reflective round trip through the base capability: for a           *)
(* Serializable value v, Serializable.from_dict(v.serialize(reflective=    *)
(* True)) returns a value of the concrete type of v whose elements are     *)
(* equal to those of v, each with the concrete type it had in v, also when *)
(* the elements are instances of a strict subtype of the declared element  *)
(* type and when v nests containers.                                       *)
(***************************************************************************)
C1_ReflectiveRoundTrip ==
    (/\ DecodedThrough("Serializable")
     /\ last.reflective
     /\ Homogeneous(obj)
     /\ DistinctNames(obj))
        => (/\ ~Raised(out)
            /\ out.cls = obj.cls
            /\ Elements(out) = Elements(obj))

(***************************************************************************)
(* C2.  Order preservation: a Container holding [e1, ..., en] (duplicates  *)
(* allowed), serialized and decoded through its own concrete class, yields *)
(* a Container of exactly n elements, the i-th being the decoding of ei.   *)
(***************************************************************************)
C2_OrderPreserved ==
    (/\ IsContainer(obj)
     /\ DecodedThrough(obj.cls)
     /\ Homogeneous(obj))
        => (/\ ~Raised(out)
            /\ out.cls = obj.cls
            /\ Len(out.elements) = Len(obj.elements)
            /\ \A i \in 1..Len(obj.elements) :
                  /\ out.elements[i] = DecodedElement(obj, obj.elements[i], FALSE)
                  /\ IsLeaf(obj.elements[i]) =>
                        /\ out.elements[i].name = obj.elements[i].name
                        /\ out.elements[i].x = obj.elements[i].x)

\* a Container of three elements, two of them equal, has been round-tripped
C2_Witness ==
    /\ IsContainer(obj)
    /\ DecodedThrough(obj.cls)
    /\ ~last.reflective
    /\ ~Raised(out)
    /\ Len(obj.elements) = 3
    /\ obj.elements[1] = obj.elements[3]
    /\ obj.elements[1] # obj.elements[2]
    /\ out.elements[1] # out.elements[2]

\* the abstract base of the collection o
BaseOf(o) == IF IsSet(o) THEN "Set" ELSE "Container"

\* out has the concrete type of obj and holds, in order, the element
\* documents of doc decoded by the declared element class of obj
CrossDecoded ==
    /\ ~Raised(out)
    /\ out.cls = obj.cls
    /\ Len(Elements(out)) = Len(Elements(obj))
    /\ \A i \in 1..Len(Elements(obj)) :
          Elements(out)[i] =
              FromDict(EleCls(obj.cls), Get(doc, EleAttr(obj.cls))[i], 0)

(***************************************************************************)
(* C3, as claimed.  Reflective cross-decode: for every concrete Set (resp. *)
(* Container) subtype S with element type E, s.serialize(reflective=True)  *)
(* decoded through the base Set.from_dict (resp. Container.from_dict) is   *)
(* an object of concrete type S holding elements decoded with E.           *)
(***************************************************************************)
C3_CrossDecodeAnySubtype ==
    (/\ DecodedThrough(BaseOf(obj))
     /\ last.reflective
     /\ Homogeneous(obj)
     /\ DistinctNames(obj))
        => CrossDecoded

(***************************************************************************)
(* C3, amended.  Reflective cross-decode holds for every concrete subtype  *)
(* S that keeps the _ELE_CLS_FIELD of the base entry point: the decoded    *)
(* object has concrete type S and holds elements decoded with E.           *)
(***************************************************************************)
C3_CrossDecodeSameField ==
    (/\ DecodedThrough(BaseOf(obj))
     /\ last.reflective
     /\ EleClsField(obj.cls) = EleClsField(BaseOf(obj))
     /\ Homogeneous(obj)
     /\ DistinctNames(obj))
        => CrossDecoded

\* a DogSet of a Dog and a Puppy came back as a DogSet from Set.from_dict
C3_Witness ==
    /\ DecodedThrough("Set")
    /\ last.reflective
    /\ obj.cls = "DogSet"
    /\ Len(obj.elements) = 2
    /\ \E i \in 1..2 : obj.elements[i][2].cls = "Puppy"
    /\ out.cls = "DogSet"
    /\ Len(out.elements) = 2

(***************************************************************************)
(* C4.  Cross-hierarchy guard: decoding through an entry point C           *)
(* (Container.from_dict, Set.from_dict or that of a subclass) fails with   *)
(* an error whenever the _CLS tag of the document resolves to a type that  *)
(* is neither C nor a subtype of C.                                        *)
(***************************************************************************)
C4_CrossHierarchyGuard ==
    (/\ pc = "decoded"
     /\ last.reflective
     /\ last.entry \in ContainerClasses \cup SetClasses
     /\ ~IsSubclass(obj.cls, last.entry))
        => Raised(out)

(***************************************************************************)
(* C5.  Homogeneity invariant: in every state reached from a constructed   *)
(* Container by add, add_container, add_iterable, index assignment,        *)
(* filter_elements, delete_inds, keep_inds and sort_by, every stored       *)
(* element is an instance of the declared element class.                   *)
(***************************************************************************)
C5_Homogeneity == (pc = "live" /\ IsContainer(obj)) => Homogeneous(obj)

(***************************************************************************)
(* C6.  All-or-nothing construction: constructing a Container or Set from  *)
(* a list that holds, at any position, an element that is no instance of   *)
(* the declared element class raises ContainerError (resp. SetError)       *)
(* before any element is stored, and no object is obtained.                *)
(***************************************************************************)
C6_AllOrNothing ==
    (/\ last.op = "init"
     /\ EleCls(last.cls) # "<None>"
     /\ \E i \in 1..Len(last.arg) : ~IsInstance(last.arg[i], EleCls(last.cls)))
        => (/\ Raised(last.res)
            /\ last.res.error =
                  IF last.cls \in SetClasses THEN "SetError" ELSE "ContainerError"
            /\ last.res.elements = <<>>
            /\ pc = "failed"
            /\ obj = Nothing)

\* a construction failed on the last of three elements
C6_Witness ==
    /\ last.op = "init"
    /\ last.cls = "DogSet"
    /\ Len(last.arg) = 3
    /\ IsInstance(last.arg[1], "Dog")
    /\ IsInstance(last.arg[2], "Dog")
    /\ ~IsInstance(last.arg[3], "Dog")
    /\ pc = "failed"

(***************************************************************************)
(* C7.  Overwrite-on-collision: after Set.add(e) with a non-empty key k    *)
(* the set maps k to e, and its size is unchanged if k was present before  *)
(* and one larger otherwise; two elements with equal keys added to an      *)
(* empty Set leave exactly one element, the second.                        *)
(***************************************************************************)
C7_OverwriteOnCollision ==
    (/\ pc = "live"
     /\ IsSet(obj)
     /\ last.op = "add"
     /\ ~Falsy(GetKey(obj.cls, last.arg)))
        => LET k == GetKey(obj.cls, last.arg)
           IN /\ Has(obj.elements, k)
              /\ Get(obj.elements, k) = last.arg
              /\ Len(obj.elements) =
                    Len(last.before) + (IF Has(last.before, k) THEN 0 ELSE 1)

\* the second of two elements with key "a" replaced the first
C7_Witness ==
    /\ pc = "live"
    /\ IsSet(obj)
    /\ last.op = "add"
    /\ last.before = << <<"a", Leaf("Dog", "a", 1)>> >>
    /\ last.arg = Leaf("Dog", "a", 2)
    /\ obj.elements = << <<"a", Leaf("Dog", "a", 2)>> >>

\* the elements the last add, add_iterable or construction brought
AddedElements == IF last.op = "add" THEN <<last.arg>> ELSE last.arg
\* the element store they were added to
StoreBefore == IF last.op = "init" THEN <<>> ELSE last.before

(***************************************************************************)
(* C8.  Surrogate-key uniqueness: adding n elements whose key attribute is *)
(* empty to a Set in any state increases its size by exactly n; each is    *)
(* stored under a generated key that differs from every key present before *)
(* and from every other generated key, and no entry is lost or replaced.   *)
(***************************************************************************)
C8_SurrogateKeys ==
    (/\ pc = "live"
     /\ IsSet(obj)
     /\ last.op \in {"init", "add", "add_iterable"}
     /\ \A j \in 1..Len(AddedElements) : Falsy(GetKey(obj.cls, AddedElements[j])))
        => LET n == Len(AddedElements)
               m == Len(StoreBefore)
           IN /\ Len(obj.elements) = m + n
              /\ SubSeq(obj.elements, 1, m) = StoreBefore
              /\ Cardinality(Keys(obj.elements)) = m + n
              /\ \A j \in 1..n :
                    /\ IsUuid(obj.elements[m + j][1])
                    /\ obj.elements[m + j][1] \notin Keys(StoreBefore)
                    /\ obj.elements[m + j][2] = AddedElements[j]

\* two elements without a key joined a Set that held a surrogate key already
C8_Witness ==
    /\ pc = "live"
    /\ IsSet(obj)
    /\ last.op = "add_iterable"
    /\ Len(last.arg) = 2
    /\ \A j \in 1..2 : Falsy(GetKey(obj.cls, last.arg[j]))
    /\ Len(last.before) = 1
    /\ IsUuid(last.before[1][1])
    /\ Len(obj.elements) = 3

\* the document of a Set lists the serialized elements and carries no key
KeylessDocument ==
    (pc = "serialized" /\ IsSet(obj)) =>
        /\ Keys(doc) \subseteq {"_CLS", EleClsField(obj.cls), EleAttr(obj.cls)}
        /\ Get(doc, EleAttr(obj.cls)) =
              [i \in 1..Len(obj.elements) |->
                  Serialize(obj.elements[i][2], last.reflective)]

\* element i of obj is the last one with its value of the key attribute
LastWithName(i) ==
    \A j \in (i + 1)..Len(obj.elements) :
        GetKey(obj.cls, obj.elements[j][2]) # GetKey(obj.cls, obj.elements[i][2])

(***************************************************************************)
(* C9, as claimed.  Key re-derivation: the serialized form of a Set holds  *)
(* only the element list, and for every element e of the original Set the *)
(* Set rebuilt by from_dict stores the decoded e under the key equal to    *)
(* the value of the key attribute of e.                                    *)
(***************************************************************************)
C9_KeyRederivedForAll ==
    /\ KeylessDocument
    /\ (pc = "decoded" /\ IsSet(obj) /\ IsSet(out)) =>
          \A i \in 1..Len(obj.elements) :
             LET e == obj.elements[i][2]
             IN /\ Has(out.elements, GetKey(obj.cls, e))
                /\ Get(out.elements, GetKey(obj.cls, e)) =
                      DecodedElement(obj, e, last.reflective)

(***************************************************************************)
(* C9, amended.  The serialized form of a Set holds only the element list, *)
(* and the Set rebuilt by from_dict stores every element whose key         *)
(* attribute is non-empty (the last one, if several share the value) under *)
(* the key equal to that value; an element whose key attribute is empty is *)
(* stored under a newly generated surrogate key.                           *)
(***************************************************************************)
C9_KeyRederived ==
    /\ KeylessDocument
    /\ (pc = "decoded" /\ IsSet(obj) /\ IsSet(out)) =>
          \A i \in 1..Len(obj.elements) :
             LET e == obj.elements[i][2]
                 k == GetKey(obj.cls, e)
                 dec == DecodedElement(obj, e, last.reflective)
             IN IF Falsy(k)
                THEN \E j \in 1..Len(out.elements) :
                        /\ out.elements[j][2] = dec
                        /\ IsUuid(out.elements[j][1])
                        /\ out.elements[j][1] \notin Keys(obj.elements)
                ELSE LastWithName(i) =>
                        /\ Has(out.elements, k)
                        /\ Get(out.elements, k) = dec

\* a Set holding an element keyed by its name and one under a surrogate key
\* was rebuilt: the name is a key again, the surrogate key is a new one
C9_Witness ==
    /\ pc = "decoded"
    /\ obj.cls = "DogSet"
    /\ last.entry = "DogSet"
    /\ out.cls = "DogSet"
    /\ Len(obj.elements) = 2
    /\ Has(obj.elements, "a")
    /\ \E k \in Keys(obj.elements) : IsUuid(k)
    /\ Len(out.elements) = 2
    /\ Get(out.elements, "a") = Get(obj.elements, "a")
    /\ \E k \in Keys(out.elements) : IsUuid(k) /\ k \notin Keys(obj.elements)

\* the attribute values of a list of elements
XsOf(elements) == [i \in 1..Len(elements) |-> elements[i].x]
\* the items whose attribute value is v, in order
WithX(items, xs, v) == SelectIdx(items, {i \in 1..Len(items) : xs[i] = v})

\* `after` is `before` sorted by the attribute values: a permutation with
\* None last, the other values ascending (descending when reverse), and
\* items of equal value in their order of before
SortedByX(before, xsBefore, after, xsAfter, reverse) ==
    /\ Len(after) = Len(before)
    /\ \A v \in Range(xsBefore) \cup Range(xsAfter) :
          WithX(after, xsAfter, v) = WithX(before, xsBefore, v)
    /\ \A i, j \in 1..Len(after) :
          i < j =>
             /\ xsAfter[i] = None => xsAfter[j] = None
             /\ (xsAfter[i] # None /\ xsAfter[j] # None) =>
                   IF reverse THEN xsAfter[i] >= xsAfter[j]
                   ELSE xsAfter[i] <= xsAfter[j]

(***************************************************************************)
(* C10.  sort_by(attr, reverse) on a Container or Set yields a permutation *)
(* of the stored elements in which the elements whose attr is None come    *)
(* after all others, for reverse=False and reverse=True; the others are in *)
(* ascending (reverse=False) or descending (reverse=True) order of attr;   *)
(* elements of equal attr, None included, keep their relative order; in a  *)
(* Set every element stays under its key.                                  *)
(***************************************************************************)
C10_SortByNoneLast ==
    (pc = "live" /\ last.op = "sort_by") =>
        IF IsSet(obj)
        THEN SortedByX(last.before, XsOf(Values(last.before)),
                       obj.elements, XsOf(Values(obj.elements)), last.reverse)
        ELSE SortedByX(last.before, XsOf(last.before),
                       obj.elements, XsOf(obj.elements), last.reverse)

\* a descending sort moved a None from the front to the end and kept two
\* elements of equal value in their order
C10_Witness ==
    /\ pc = "live"
    /\ last.op = "sort_by"
    /\ last.reverse
    /\ IsContainer(obj)
    /\ Len(obj.elements) = 3
    /\ last.before[1].x = None
    /\ last.before[2].x = last.before[3].x
    /\ last.before[2] # last.before[3]
    /\ obj.elements = <<last.before[2], last.before[3], last.before[1]>>

\* the element of an entry of an element store: the entry itself in a
\* Container, the value of the (key, element) pair in a Set
ElementOf(o, entry) == IF IsSet(o) THEN entry[2] ELSE entry

\* the entries of store that filter_elements(filters, match) has to keep
Wanted(o, store, filters, match) ==
    {i \in 1..Len(store) :
        IF match = "any"
        THEN \E j \in 1..Len(filters) : ApplyFilter(filters[j], ElementOf(o, store[i]))
        ELSE \A j \in 1..Len(filters) : ApplyFilter(filters[j], ElementOf(o, store[i]))}

(***************************************************************************)
(* C11.  filter_elements(filters, match) on a Container or Set keeps, in   *)
(* their original order (and, in a Set, under their keys), exactly the     *)
(* elements for which match over the filter results is true: with any, an  *)
(* element satisfying at least one filter stays, with all, an element      *)
(* failing at least one filter goes.                                       *)
(***************************************************************************)
C11_FilterKeepsMatches ==
    (pc = "live" /\ last.op = "filter_elements") =>
        obj.elements = SelectIdx(last.before,
                                 Wanted(obj, last.before, last.filters, last.match))

\* an element with a name and x # 1 survived any and its neighbour without a
\* name and x # 1 did not
C11_Witness ==
    /\ pc = "live"
    /\ last.op = "filter_elements"
    /\ last.filters = <<"x_is_1", "has_name">>
    /\ last.match = "any"
    /\ IsContainer(obj)
    /\ Len(last.before) = 3
    /\ Len(obj.elements) = 2
    /\ \E i \in 1..3 : last.before[i].x # 1 /\ last.before[i].name # ""
                       /\ last.before[i] \in Range(obj.elements)

(***************************************************************************)
(* C12.  get_matches(filters, match) and count_matches never mutate the    *)
(* receiver: its element store has the same members, order and keys after  *)
(* the call; and get_matches returns a container of the same concrete type *)
(* holding exactly the elements filter_elements would have kept, in the    *)
(* same order (count_matches returns their number).                        *)
(***************************************************************************)
C12_GetMatchesPure ==
    (pc = "matched") =>
        LET kept == SelectIdx(last.before,
                              Wanted(obj, last.before, last.filters, last.match))
        IN /\ obj.elements = last.before
           /\ ~Raised(out)
           /\ last.op = "get_matches" => (out.cls = obj.cls /\ out.elements = kept)
           /\ last.op = "count_matches" => out.value = Len(kept)

(***************************************************************************)
(* C13.  Exclusive ownership: a container obtained from another by copy(), *)
(* get_matches(), extract_inds() or extract_keys() shares no element       *)
(* object with the original, so after any field mutations on elements      *)
(* reached through the new container and any add or delete on it, every    *)
(* element of the original has the field values it had before; for         *)
(* Container and Set.                                                      *)
(***************************************************************************)
C13_ExclusiveOwnership ==
    derived # Nothing =>
        \A i \in 1..Len(orig.elements) : heap[Refs(orig)[i]] = derived.was[i]

\* a list of the indices of store that are not in inds
Complement(store, inds) ==
    LET rest == (1..Len(store)) \ Range(inds)
    IN CHOOSE c \in SeqsUpTo(1..Len(store), Len(store)) :
          Range(c) = rest /\ Len(c) = Cardinality(rest)

(***************************************************************************)
(* C14.  Index-based removal: for a list inds of valid indices in any      *)
(* order, a repeated index counting once, delete_inds(inds) returns and    *)
(* removes exactly the elements at the positions of inds, keeping the      *)
(* others in order; the result equals keep_inds of the complementary       *)
(* indices and the size decreases by the number of distinct indices.       *)
(***************************************************************************)
C14_DeleteIndsExact ==
    (pc = "live" /\ last.op = "delete_inds") =>
        /\ last.error = ""
        /\ obj.elements = SelectIdx(last.before,
                                    (1..Len(last.before)) \ Range(last.inds))
        /\ obj = ContainerKeepInds([obj EXCEPT !.elements = last.before],
                                   Complement(last.before, last.inds))
        /\ Len(obj.elements) = Len(last.before) - Cardinality(Range(last.inds))

(***************************************************************************)
(* C15.  Key-membership filtering is total: for any Set and any iterable   *)
(* of keys K, keys that are not in the set and repeated keys included,     *)
(* delete_keys(K) returns and leaves exactly the entries whose key is not  *)
(* in K, keep_keys(K) returns and leaves exactly the entries whose key is  *)
(* in K, both keeping the order and the elements of the entries left.      *)
(***************************************************************************)
C15_KeyFilteringTotal ==
    (pc = "live" /\ last.op \in {"delete_keys", "keep_keys"}) =>
        /\ last.error = ""
        /\ obj.elements =
              SelectSeq(last.before,
                        LAMBDA kv : (kv[1] \in Range(last.keys))
                                        = (last.op = "keep_keys"))

\* the first of three results that is not an exception
FirstSuccess(a, b, c) ==
    IF a.error = "" THEN a
    ELSE IF b.error = "" THEN b
    ELSE IF c.error = "" THEN c
    ELSE Raises("ValueError")

(***************************************************************************)
(* C16.  load_json(s) tries (a) s as the path of a file on disk, (b) s as  *)
(* a literal document, (c) s as comma-separated key=value shorthand, in    *)
(* that order, and returns the result of the first that succeeds; when s   *)
(* is the path of an existing document file and a document literal too,    *)
(* the content of the file is returned.                                    *)
(***************************************************************************)
C16_FileLiteralShorthandOrder ==
    loaded # Nothing =>
        LET s == loaded.arg.text
        IN loaded.res =
              FirstSuccess(IF IsFile(fs, s) THEN ReadJson(fs, s)
                           ELSE Raises("ValueError"),
                           JsonLoads(s),
                           LoadChunks(Split(s, ","), <<>>))

(***************************************************************************)
(* C17.  Shorthand load: for a text "key1=<doc1>,key2=<doc2>,..." that is  *)
(* neither a document literal nor a file path and in which every <docN>    *)
(* parses as a document, documents with a comma or an equals sign inside   *)
(* included, load_json returns the mapping from each keyN to the parsed    *)
(* <docN>, in the order written.                                           *)
(***************************************************************************)
C17_ShorthandLoad ==
    (/\ loaded # Nothing
     /\ loaded.arg.pairs # <<>>
     /\ \A i, j \in 1..Len(loaded.arg.pairs) :
           i # j => loaded.arg.pairs[i][1] # loaded.arg.pairs[j][1]
     /\ ~IsFile(fs, loaded.arg.text)
     /\ JsonLoads(loaded.arg.text).error # "")
        => loaded.res =
              Returns([i \in 1..Len(loaded.arg.pairs) |->
                          <<loaded.arg.pairs[i][1],
                            JsonLoads(loaded.arg.pairs[i][2]).value>>])

(***************************************************************************)
(* C18.  Base-level decode always terminates: Serializable.from_dict on a  *)
(* document without a _CLS tag raises NotImplementedError; on a document   *)
(* whose _CLS names a Serializable subtype that does not override          *)
(* from_dict it resolves the type once, delegates with the tag removed,    *)
(* and the delegated call raises NotImplementedError: no second            *)
(* delegation, no loop.                                                    *)
(***************************************************************************)
C18_BaseDecodeTerminates ==
    (pc = "plain-decoded") =>
        /\ out = Raise("NotImplementedError")
        /\ ~Has(doc, "_CLS")
        /\ doc = IF Has(last.before, "_CLS") THEN Tail(last.before)
                 ELSE last.before

\* a tagged document of a Plain was decoded through Serializable.from_dict:
\* the tag is gone and NotImplementedError was raised
C18_Witness ==
    /\ pc = "plain-decoded"
    /\ last.entry = "Serializable"
    /\ last.reflective
    /\ Get(last.before, "_CLS") = "Plain"
    /\ ~Has(doc, "_CLS")
    /\ out = Raise("NotImplementedError")

\* the keys of a document, in order
KeySeq(d) == [i \in 1..Len(d) |-> d[i][1]]

\* the keys of the document of v in the order claimed: the tag _CLS first
\* when reflective, then for a Container or Set the element-class field,
\* then the attributes in the order of attributes()
ClaimedKeys(v, reflective) ==
    (IF reflective THEN <<"_CLS">> ELSE <<>>)
        \o (IF reflective /\ (IsContainer(v) \/ IsSet(v))
            THEN <<EleClsField(v.cls)>> ELSE <<>>)
        \o Attributes(v)

(***************************************************************************)
(* C19.  Document field order: for every Serializable value (plain,        *)
(* Container or Set) the keys of serialize(reflective) come in the order   *)
(* of attributes(); when reflective is true the key _CLS is the first key  *)
(* (followed, for a Container or Set, by the element-class field and then  *)
(* the element list), when reflective is false there is no key _CLS.       *)
(***************************************************************************)
C19_FieldOrder ==
    (pc \in {"serialized", "plain-serialized"}) =>
        /\ KeySeq(doc) = ClaimedKeys(obj, last.reflective)
        /\ last.reflective => doc[1] = <<"_CLS", GetClassName(obj.cls)>>
        /\ ~last.reflective => ~Has(doc, "_CLS")
        /\ (IsContainer(obj) \/ IsSet(obj)) =>
              \A i \in 1..Len(Elements(obj)) :
                 LET e == Elements(obj)[i]
                     d == Get(doc, EleAttr(obj.cls))[i]
                 IN \/ KeySeq(d) = Attributes(e)
                    \/ KeySeq(d) = <<"_CLS">> \o Attributes(e)
                    \/ KeySeq(d) = <<"_CLS", EleClsField(e.cls)>> \o Attributes(e)

\* a reflective document of a Set with elements: _CLS, the element-class
\* field, the element list
C19_Witness ==
    /\ pc = "serialized"
    /\ last.reflective
    /\ obj.cls = "TaggedSet"
    /\ Len(obj.elements) = 2
    /\ KeySeq(doc) = <<"_CLS", "_TAG_CLS", "dogs">>

\* the Container class with the element class and fields of a Set class
ContainerLike(c) == IF c = "TaggedSet" THEN "TaggedContainer" ELSE "DogContainer"

\* the Container that holds the elements of a Set store, in order
AsContainer(c, store) == [cls |-> ContainerLike(c), elements |-> Values(store)]

\* every element of the store has a non-empty key attribute and is stored
\* under it
KeyedByAttribute(c, store) ==
    \A i \in 1..Len(store) :
        ~Falsy(GetKey(c, store[i][2])) /\ store[i][1] = GetKey(c, store[i][2])

(***************************************************************************)
(* C20.  Container and Set implement the same filter/sort algebra: from a  *)
(* Container and a Set holding the same sequence of elements (distinct     *)
(* non-empty keys), the same filter_elements(filters, match),              *)
(* sort_by(attr, reverse) or get_matches call leaves, resp. returns, the   *)
(* same sequence of elements in both, and every element left in the Set    *)
(* is still stored under the key it had.                                   *)
(***************************************************************************)
C20_SameAlgebra ==
    (/\ pc \in {"live", "matched"}
     /\ IsSet(obj)
     /\ last.op \in {"filter_elements", "sort_by", "get_matches"}
     /\ KeyedByAttribute(obj.cls, last.before))
        => LET c == AsContainer(obj.cls, last.before)
           IN /\ last.op = "filter_elements" =>
                    /\ Values(obj.elements) =
                          ContainerFilterElements(c, last.filters, last.match).elements
                    /\ Range(obj.elements) \subseteq Range(last.before)
              /\ last.op = "sort_by" =>
                    /\ Values(obj.elements) =
                          ContainerSortBy(c, "x", last.reverse).elements
                    /\ Range(obj.elements) \subseteq Range(last.before)
              /\ last.op = "get_matches" =>
                    LET r == ContainerGetMatches(c, last.filters, last.match).result
                    IN /\ ~Raised(r)
                       /\ ~Raised(out)
                       /\ Values(out.elements) = r.elements
                       /\ Range(out.elements) \subseteq Range(last.before)

\* the concrete class of obj overrides the element-class field name
OverridesField(o) == EleClsField(o.cls) # EleClsField(BaseOf(o))

\* the error a collection class raises
ErrorOf(o) == IF IsSet(o) THEN "SetError" ELSE "ContainerError"

(***************************************************************************)
(* C21, as claimed.  A concrete Container or Set subtype that overrides    *)
(* _ELE_CLS_FIELD is decoded from its serialize(reflective=True) document  *)
(* by the base Container.from_dict / Set.from_dict into an instance of the *)
(* subtype.                                                                *)
(***************************************************************************)
C21_OverrideDecodesFromBase ==
    (/\ DecodedThrough(BaseOf(obj))
     /\ last.reflective
     /\ OverridesField(obj)
     /\ Homogeneous(obj)
     /\ DistinctNames(obj))
        => (~Raised(out) /\ out.cls = obj.cls)

(***************************************************************************)
(* C21, amended.  For a subtype that overrides _ELE_CLS_FIELD, the base    *)
(* entry point raises ContainerError (resp. SetError) on the reflective    *)
(* document, whatever the elements; the subtype's own from_dict and        *)
(* Serializable.from_dict return an instance of the subtype.               *)
(***************************************************************************)
C21_OverrideNeedsOwnEntry ==
    (/\ pc = "decoded"
     /\ last.reflective
     /\ OverridesField(obj))
        => /\ last.entry = BaseOf(obj) =>
                (Raised(out) /\ out.error = ErrorOf(obj))
           /\ (/\ last.entry \in {obj.cls, "Serializable"}
               /\ Homogeneous(obj)
               /\ DistinctNames(obj)) =>
                (~Raised(out) /\ out.cls = obj.cls
                    /\ Len(Elements(out)) = Len(Elements(obj)))

\* a TaggedContainer of two elements was refused by Container.from_dict
C21_Witness ==
    /\ DecodedThrough("Container")
    /\ last.reflective
    /\ obj.cls = "TaggedContainer"
    /\ Len(obj.elements) = 2
    /\ Raised(out)

(***************************************************************************)
(* C22.  In reflective mode both collection kinds embed the type identity  *)
(* of their elements: every element document inside                        *)
(* Container.serialize(reflective=True), as inside                         *)
(* Set.serialize(reflective=True), carries its own _CLS tag, naming the    *)
(* class of the element.                                                   *)
(***************************************************************************)
C22_ElementsTagged ==
    (/\ pc = "serialized"
     /\ last.reflective
     /\ (IsContainer(obj) \/ IsSet(obj)))
        => LET dds == Get(doc, EleAttr(obj.cls))
           IN /\ Len(dds) = Len(Elements(obj))
              /\ \A i \in 1..Len(dds) :
                    /\ Has(dds[i], "_CLS")
                    /\ Get(dds[i], "_CLS") = GetClassName(Elements(obj)[i].cls)

(***************************************************************************)
(* C27.  Decoding does not modify its input: after entry.from_dict(d) the  *)
(* document d has the keys and values it had before the call, and          *)
(* decoding the same document object again through the same entry point    *)
(* succeeds when the first decoding did, with a structurally equal result. *)
(***************************************************************************)
C27_DecodeLeavesDocument ==
    (pc \in {"decoded", "plain-decoded"}) =>
        /\ doc = last.before
        /\ (pc = "decoded" /\ ~Raised(out)) =>
              LET again == FromDict(last.entry, doc, uuids)
              IN /\ ~Raised(again)
                 /\ again.cls = out.cls
                 /\ Elements(again) = Elements(out)

(***************************************************************************)
(* C26.  Construction from any iterable: a Container or Set constructed    *)
(* from an iterable of valid elements (for a Set: with distinct keys)      *)
(* holds exactly the elements the iterable yields, in order, whether the   *)
(* iterable is a list or a one-shot iterator.                              *)
(***************************************************************************)
C26_ConstructedFromIterable ==
    (/\ pc = "live"
     /\ last.op \in {"init", "init_iterator"}
     /\ \A i \in 1..Len(last.arg) : IsInstance(last.arg[i], EleCls(last.cls))
     /\ (last.cls \in SetClasses =>
            \A i, j \in 1..Len(last.arg) :
                i # j => GetKey(last.cls, last.arg[i]) # GetKey(last.cls, last.arg[j])))
        => Elements(obj) = last.arg

\* entry (k, e) of a Set of class c is stored under the key of e, or under
\* a surrogate key when e has no key
KeyConsistent(c, k, e) ==
    \/ k = GetKey(c, e)
    \/ Falsy(GetKey(c, e)) /\ IsUuid(k)

(***************************************************************************)
(* C28.  Set key consistency: in every state reached from a constructed    *)
(* Set by add, add_iterable, add_set, key assignment, filter_elements,     *)
(* keep_keys, delete_keys and sort_by, each entry (k, e) has k equal to    *)
(* the key attribute of e, or e has an empty key attribute and k is a      *)
(* generated surrogate key; and serialize followed by from_dict of the     *)
(* Set's class yields a Set with the same number of elements.              *)
(***************************************************************************)
C28_KeyConsistency ==
    (pc \in {"live", "serialized", "decoded", "matched"} /\ IsSet(obj)) =>
        /\ \A i \in 1..Len(obj.elements) :
              KeyConsistent(obj.cls, obj.elements[i][1], obj.elements[i][2])
        /\ (pc = "decoded" /\ last.entry = obj.cls /\ Homogeneous(obj)) =>
              /\ ~Raised(out)
              /\ Len(out.elements) = Len(obj.elements)

(***************************************************************************)
(* eta.modules.apply_image_classifier: the confidence threshold.  A        *)
(* prediction is represented by its confidence, None or a number (in       *)
(* hundredths); the predictions of one image are a sequence.               *)
(***************************************************************************)
\* the most predictions the classifier returns for one image
MaxAttrs == 3
\* config.parameters.confidence_threshold
Thresholds == {None, 1, 2}
\* attr.confidence
Confidences == {None, 1, 2, 3}

\* the filter _build_attribute_filter(threshold) returns, applied to attrs;
\* float(threshold) is the number threshold
BuildAttributeFilter(threshold, attrs) ==
    IF threshold = None THEN attrs
    ELSE SelectSeq(attrs, LAMBDA confidence :
                              confidence = None \/ confidence > threshold)

\* the filter of a module that keeps what it reports: confidence >= threshold
BuildAttributeFilterAsLogged(threshold, attrs) ==
    IF threshold = None THEN attrs
    ELSE SelectSeq(attrs, LAMBDA confidence :
                              confidence = None \/ confidence >= threshold)

\* attr_filter = _build_attribute_filter(config.parameters.confidence_threshold)
BuildFilter ==
    /\ clf = Nothing
    /\ \E threshold \in Thresholds :
          clf' = [cls |-> "<filter>", threshold |-> threshold,
                  attrs |-> <<>>, kept |-> <<>>, calls |-> 0]
    /\ UNCHANGED <<collectionVars, ownVars, loadVars, barVars, capVars>>

\* attrs = _classify_image(img, classifier, attr_filter, None)
ClassifyImage ==
    /\ clf # Nothing
    /\ \E attrs \in SeqsUpTo(Confidences, MaxAttrs) :
          clf' = [clf EXCEPT !.attrs = attrs,
                             !.kept = BuildAttributeFilter(clf.threshold, attrs),
                             !.calls = 1]
    /\ UNCHANGED <<collectionVars, ownVars, loadVars, barVars, capVars>>

FilterInit == NoCollection /\ NoHeap /\ NoFiles /\ NoUtils

FilterNext == BuildFilter \/ ClassifyImage

FilterSpec == FilterInit /\ [][FilterNext]_vars

(***************************************************************************)
(* C25.  Confidence threshold filter: with a threshold t the filter        *)
(* returns exactly the predictions whose confidence is None or is >= t,    *)
(* in order, so a prediction with confidence equal to t is retained; with  *)
(* no threshold every prediction is returned unchanged.                    *)
(***************************************************************************)
C25_KeepsAtLeastThreshold ==
    (clf # Nothing /\ clf.calls = 1) =>
        clf.kept = BuildAttributeFilterAsLogged(clf.threshold, clf.attrs)

(***************************************************************************)
(* eta.core.utils.CaptureStdout.  A stream is a pair: <<"orig", 0>> is the *)
(* stream installed before any capture, <<c, k>> is the k-th _StringIO     *)
(* buffer instance c created, <<"None", 0>> is None.  The text written to  *)
(* a buffer is left out: no claim reads it.                                *)
(***************************************************************************)
\* the number of times one instance is started
MaxStarts == 2
OrigStream == <<"orig", 0>>
NoStream == <<"None", 0>>
CaptureInstances == {"A", "B"}

\* CaptureStdout.is_capturing
IsCapturing(cs, c) == cs[c].cache_stdout # NoStream

\* the stream is a _StringIO buffer that has been closed: a buffer is open
\* from the start() that creates it to the stop() of its instance
IsClosed(cs, stream) ==
    /\ stream \notin {OrigStream, NoStream}
    /\ cs[stream[1]].cache_stdout # stream

\* CaptureStdout.start: the state it leaves (sys.stdout.flush() writes
\* nothing and does not fail, also on a closed _StringIO)
CaptureStart(st, c) ==
    IF IsCapturing(st.caps, c) THEN st
    ELSE LET buffer == <<c, st.caps[c].buffers + 1>>
             redirect == st.logStream = st.sysStdout
         IN [sysStdout |-> buffer,
             logStream |-> IF redirect THEN buffer ELSE st.logStream,
             caps |-> [st.caps EXCEPT ![c] =
                          [orig_stdout |-> st.sysStdout,
                           cache_stdout |-> buffer,
                           handler_inds |-> IF redirect THEN <<0>> ELSE <<>>,
                           buffers |-> @.buffers + 1]]]

\* CaptureStdout.stop
CaptureStop(st, c) ==
    IF ~IsCapturing(st.caps, c) THEN st
    ELSE [sysStdout |-> st.caps[c].orig_stdout,
          logStream |-> IF st.caps[c].handler_inds = <<0>>
                        THEN st.caps[c].orig_stdout ELSE st.logStream,
          caps |-> [st.caps EXCEPT ![c].cache_stdout = NoStream,
                                   ![c].handler_inds = <<"None">>]]

\* the streams and instances as one record
CaptureState == [sysStdout |-> sysStdout, logStream |-> logStream, caps |-> caps]

\* c.start()
CapStart ==
    \E c \in CaptureInstances :
        /\ IsCapturing(caps, c) \/ caps[c].buffers < MaxStarts
        /\ LET r == CaptureStart(CaptureState, c)
           IN /\ sysStdout' = r.sysStdout
              /\ logStream' = r.logStream
              /\ caps' = r.caps
              /\ capCall' = [op |-> "start", self |-> c, before |-> CaptureState]
        /\ UNCHANGED <<collectionVars, ownVars, loadVars, clf, barVars>>

\* c.stop()
CapStop ==
    \E c \in CaptureInstances :
        /\ LET r == CaptureStop(CaptureState, c)
           IN /\ sysStdout' = r.sysStdout
              /\ logStream' = r.logStream
              /\ caps' = r.caps
              /\ capCall' = [op |-> "stop", self |-> c, before |-> CaptureState]
        /\ UNCHANGED <<collectionVars, ownVars, loadVars, clf, barVars>>

CapInit == NoCollection /\ NoHeap /\ NoFiles /\ NoUtils

CapNext == CapStart \/ CapStop

CapSpec == CapInit /\ [][CapNext]_vars

(***************************************************************************)
(* C29.  CaptureStdout restores the output stream under every              *)
(* interleaving of two instances: whenever no instance is capturing,       *)
(* sys.stdout is the stream installed before the first start(); sys.stdout *)
(* never points at a closed capture buffer; start() on a capturing         *)
(* instance and stop() on one that is not capturing change nothing.        *)
(***************************************************************************)
C29_StdoutRestored ==
    /\ (\A c \in CaptureInstances : ~IsCapturing(caps, c)) => sysStdout = OrigStream
    /\ ~IsClosed(caps, sysStdout)
    /\ (capCall.op = "start" /\ IsCapturing(capCall.before.caps, capCall.self))
          => CaptureState = capCall.before
    /\ (capCall.op = "stop" /\ ~IsCapturing(capCall.before.caps, capCall.self))
          => CaptureState = capCall.before

(***************************************************************************)
(* eta.core.utils.ProgressBar.  A time is <<t>>, None is <<>>; the clock   *)
(* counts in units of 1 / max_fps, so max_fps is 1 per unit.  The text     *)
(* that is rendered is left out, what can make rendering fail is kept.     *)
(***************************************************************************)
\* the clock stops here
MaxTime == 2
\* the iteration a bar without total is driven to
MaxIter == 3
\* the capture buffers the bar's CaptureStdout creates (one per start and
\* per drawn frame)
MaxBuffers == 3
\* deque(..., maxlen=10)
DequeMaxLen == 10

NoTime == <<>>

\* deque.append
DequeAppend(d, x) ==
    IF Len(d) = DequeMaxLen THEN Append(Tail(d), x) ELSE Append(d, x)

\* ProgressBar.__init__
ProgressBarInit(total, max_fps) ==
    [cls |-> "ProgressBar", total |-> total, max_fps |-> max_fps, iteration |-> 0,
     is_running |-> FALSE, is_finalized |-> FALSE,
     is_capturing_stdout |-> FALSE, cap_obj |-> "None",
     start_time |-> NoTime, last_draw_time |-> <<-1>>,
     draw_times |-> <<<<0>>>>, draw_iters |-> <<0>>,
     final_elapsed_time |-> NoTime]

\* ProgressBar.elapsed_time at clock t (Timer.elapsed_time while running)
ElapsedTime(b, t) ==
    IF b.is_finalized THEN b.final_elapsed_time
    ELSE IF ~b.is_running THEN NoTime
    ELSE <<t - b.start_time[1]>>

\* the bar and the streams as one record
BarWorld == [bar |-> bar, cap |-> CaptureState, exc |-> ""]

\* ProgressBar._flush_capture
FlushCapture(w) ==
    IF w.bar.cap_obj = "None" \/ ~IsCapturing(w.cap.caps, w.bar.cap_obj) THEN w
    ELSE [w EXCEPT !.cap = CaptureStop(@, w.bar.cap_obj)]

\* ProgressBar._start_capture
StartCapture(w) == [w EXCEPT !.cap = CaptureStart(@, w.bar.cap_obj)]

\* ProgressBar._update_estimates fails: a drawing time is None
UpdateEstimatesRaises(b) ==
    b.draw_times[Len(b.draw_times)] = NoTime \/ b.draw_times[1] = NoTime

\* ProgressBar._draw(force, last) at clock t: the state it leaves and the
\* exception it raises ("" when it returns)
Draw(w, t, force, islast) ==
    LET elapsed == ElapsedTime(w.bar, t)
        b1 == IF islast THEN [w.bar EXCEPT !.final_elapsed_time = elapsed] ELSE w.bar
        limited == b1.is_running /\ ~force /\ b1.max_fps # None
    IN IF limited /\ b1.last_draw_time = NoTime
       THEN [w EXCEPT !.bar = b1, !.exc = "TypeError"]
       ELSE IF limited /\ (elapsed[1] - b1.last_draw_time[1]) * b1.max_fps < 1
       THEN [w EXCEPT !.bar = b1]
       ELSE LET more == b1.iteration > b1.draw_iters[Len(b1.draw_iters)]
                b2 == [b1 EXCEPT
                          !.last_draw_time = elapsed,
                          !.draw_times = IF more THEN DequeAppend(@, elapsed) ELSE @,
                          !.draw_iters = IF more THEN DequeAppend(@, b1.iteration) ELSE @]
                w2 == IF b2.is_capturing_stdout
                      THEN FlushCapture([w EXCEPT !.bar = b2])
                      ELSE [w EXCEPT !.bar = b2]
            IN IF elapsed # NoTime /\ UpdateEstimatesRaises(b2)
               THEN [w2 EXCEPT !.exc = "TypeError"]
               ELSE IF ~islast /\ b2.is_capturing_stdout THEN StartCapture(w2)
               ELSE w2

\* ProgressBar.start at clock t
ProgressBarStart(w, t) ==
    IF w.bar.is_running THEN w
    ELSE IF w.bar.is_finalized THEN [w EXCEPT !.exc = "Exception"]
    ELSE LET w1 == StartCapture([w EXCEPT !.bar.is_capturing_stdout = TRUE,
                                          !.bar.cap_obj = "P"])
         IN [w1 EXCEPT !.bar.start_time = <<t>>, !.bar.is_running = TRUE]

\* ProgressBar.close at clock t
ProgressBarClose(w, t) ==
    IF w.bar.is_finalized \/ ~w.bar.is_running THEN w
    ELSE LET w1 == FlushCapture(w)
             w2 == Draw([w1 EXCEPT !.bar.is_capturing_stdout = FALSE,
                                   !.bar.cap_obj = "None"], t, TRUE, TRUE)
         IN IF w2.exc # "" THEN w2
            ELSE [w2 EXCEPT !.bar.is_running = FALSE, !.bar.is_finalized = TRUE]

\* a set_iteration that stores the iteration it is given
ProgressBarSetIterationAsGiven(w, t, iteration, draw) ==
    IF w.bar.is_finalized THEN [w EXCEPT !.exc = "Exception"]
    ELSE LET w1 == [w EXCEPT !.bar.iteration = iteration]
         IN IF draw THEN Draw(w1, t, FALSE, FALSE) ELSE w1

\* ProgressBar.set_iteration(iteration, draw=draw) at clock t
ProgressBarSetIteration(w, t, iteration, draw) ==
    IF w.bar.is_finalized THEN [w EXCEPT !.exc = "Exception"]
    ELSE LET capped == IF w.bar.total # None /\ w.bar.total < iteration
                       THEN w.bar.total ELSE iteration
             w1 == [w EXCEPT !.bar.iteration = IF capped < 0 THEN 0 ELSE capped]
         IN IF draw THEN Draw(w1, t, FALSE, FALSE) ELSE w1

\* ProgressBar.update(count, draw=draw) at clock t
ProgressBarUpdate(w, t, count, draw) ==
    ProgressBarSetIteration(w, t, w.bar.iteration + count, draw)

\* the bar's CaptureStdout may create one more buffer
MayDraw == caps["P"].buffers < MaxBuffers

\* the state after a call on the bar
BarCalled(w, call) ==
    /\ bar' = w.bar
    /\ sysStdout' = w.cap.sysStdout
    /\ logStream' = w.cap.logStream
    /\ caps' = w.cap.caps
    /\ barCall' = [call EXCEPT !.before = bar, !.exc = w.exc]
    /\ UNCHANGED <<collectionVars, ownVars, loadVars, clf, now, capCall>>

\* bar = ProgressBar(total=total, max_fps=max_fps)
BarNew ==
    /\ bar = Nothing
    /\ \E total \in {None, 0, 2}, max_fps \in {None, 1} :
          bar' = ProgressBarInit(total, max_fps)
    /\ barCall' = [op |-> "init"]
    /\ UNCHANGED <<collectionVars, ownVars, loadVars, clf, now, capVars>>

\* time passes
BarTick ==
    /\ now < MaxTime
    /\ now' = now + 1
    /\ UNCHANGED <<collectionVars, ownVars, loadVars, clf, bar, barCall, capVars>>

\* bar.start()
BarStart ==
    /\ bar # Nothing
    /\ MayDraw
    /\ BarCalled(ProgressBarStart(BarWorld, now),
                 [op |-> "start", before |-> bar, exc |-> ""])

\* bar.close()
BarClose ==
    /\ bar # Nothing
    /\ BarCalled(ProgressBarClose(BarWorld, now),
                 [op |-> "close", before |-> bar, exc |-> ""])

\* bar.update(count, draw=draw)
BarUpdate ==
    /\ bar # Nothing
    /\ MayDraw
    /\ \E count \in {-1, 1, 3}, draw \in BOOLEAN :
          /\ bar.iteration + count <= MaxIter
          /\ BarCalled(ProgressBarUpdate(BarWorld, now, count, draw),
                       [op |-> "update", arg |-> count, before |-> bar, exc |-> ""])

\* bar.set_iteration(iteration, draw=draw)
BarSetIteration ==
    /\ bar # Nothing
    /\ MayDraw
    /\ \E iteration \in {-1, 1, MaxIter}, draw \in BOOLEAN :
          BarCalled(ProgressBarSetIteration(BarWorld, now, iteration, draw),
                    [op |-> "set_iteration", arg |-> iteration, before |-> bar,
                     exc |-> ""])

\* bar.draw(force=force)
BarDraw ==
    /\ bar # Nothing
    /\ MayDraw
    /\ \E force \in BOOLEAN :
          BarCalled(Draw(BarWorld, now, force, FALSE),
                    [op |-> "draw", before |-> bar, exc |-> ""])

BarInit == NoCollection /\ NoHeap /\ NoFiles /\ NoUtils

BarNext ==
    \/ BarNew \/ BarTick
    \/ BarStart \/ BarClose
    \/ BarUpdate \/ BarSetIteration \/ BarDraw

BarSpec == BarInit /\ [][BarNext]_vars

\* a call of op on the bar has just ended
BarDid(op) == bar # Nothing /\ barCall.op = op

(***************************************************************************)
(* C23.  ProgressBar lifecycle: the bar is never both running and          *)
(* finalized; is_running is true exactly between a successful start() and  *)
(* the next close() (true after start() returns, false after close(),      *)
(* unchanged by every other call); start() on a running bar and close()    *)
(* on a bar that is not running change nothing; a finalized bar stays      *)
(* finalized, and start() on it raises without changing any state.         *)
(***************************************************************************)
C23_Lifecycle ==
    (bar # Nothing /\ barCall.op # "init") =>
        /\ ~(bar.is_running /\ bar.is_finalized)
        /\ (BarDid("start") /\ barCall.exc = "") => bar.is_running
        /\ BarDid("close") => ~bar.is_running
        /\ barCall.op \notin {"start", "close"} =>
              bar.is_running = barCall.before.is_running
        /\ (BarDid("start") /\ barCall.before.is_running) => bar = barCall.before
        /\ (BarDid("close") /\ ~barCall.before.is_running) => bar = barCall.before
        /\ barCall.before.is_finalized => bar.is_finalized
        /\ (BarDid("start") /\ barCall.before.is_finalized) =>
              (barCall.exc = "Exception" /\ bar = barCall.before)

(***************************************************************************)
(* C24.  ProgressBar iteration bounds: for a bar with total T >= 0, after  *)
(* any update(count) and set_iteration(i) calls with arbitrary integers,   *)
(* 0 <= iteration <= T; for a bar without total, iteration >= 0;           *)
(* set_iteration and update on a finalized bar raise and leave iteration   *)
(* unchanged.                                                              *)
(***************************************************************************)
C24_IterationBounds ==
    bar # Nothing =>
        /\ bar.iteration >= 0
        /\ bar.total # None => bar.iteration <= bar.total
        /\ (barCall.op \in {"update", "set_iteration"} /\ barCall.before.is_finalized)
              => (barCall.exc = "Exception" /\ bar.iteration = barCall.before.iteration)

\* set_iteration beyond the total left the iteration at the total, and
\* update by a negative count left it at 0
C24_Witness ==
    /\ bar # Nothing
    /\ \/ /\ barCall.op = "set_iteration"
          /\ bar.total = 2
          /\ barCall.arg > bar.total
          /\ bar.iteration = bar.total
       \/ /\ barCall.op = "update"
          /\ barCall.arg < 0
          /\ barCall.before.iteration = 0
          /\ ~barCall.before.is_finalized
          /\ bar.iteration = 0

(***************************************************************************)
(* C30.  ProgressBar updates never fail on a bar that is not finalized,    *)
(* whatever the order of calls: update(), set_iteration() and draw()       *)
(* issued before start(), between start() and close(), or both, complete   *)
(* without raising; only calls on a finalized bar raise.                   *)
(***************************************************************************)
C30_UpdatesNeverFail ==
    (bar # Nothing /\ barCall.op \in {"update", "set_iteration", "draw"}) =>
        (barCall.exc # "" => barCall.before.is_finalized)

=============================================================================
